---- MODULE Spec2Model ----
(***************************************************************************)
(* The chromatic expression-tree algebra of galsim/chromatic.py.           *)
(*                                                                         *)
(* Every ChromaticObject built by the program is one entry of the          *)
(* sequence `nodes`; an entry's position is the object's identity, and the *)
(* attributes the constructors set (separable, interpolated, SED, _norm,   *)
(* wave_list, objlist, obj, original, _jac, _offset, _flux_ratio) are its  *)
(* fields.  A constructor is an operator from the heap and its arguments   *)
(* to the extended heap (its last entry is the object built) or an error.  *)
(***************************************************************************)
EXTENDS Integers, Sequences, FiniteSets, TLC

VARIABLES nodes, last

vars == <<nodes, last>>

(***************************************************************************)
(* Bounds of the model.                                                    *)
(***************************************************************************)
MaxNodes == 3
MaxDeep == 4
MaxArgs == 3
MaxFlux == 2
NumSEDs == 2
MaxWave == 3
MaxGrid == 3
MaxDrawn == 5

(***************************************************************************)
(* Optional attributes: None is the empty sequence, a value v is <<v>>.    *)
(***************************************************************************)
None == <<>>
Some(v) == <<v>>
IsNone(o) == o = <<>>
The(o) == o[1]

(***************************************************************************)
(* Exact positive rationals <<n, d>> in lowest terms, for fluxes and       *)
(* scalar normalizations.                                                  *)
(***************************************************************************)
RECURSIVE GCD(_, _)
GCD(a, b) == IF b = 0 THEN a ELSE GCD(b, a % b)

Rat(n, d) == LET g == GCD(n, d) IN <<n \div g, d \div g>>
RMul(x, y) == Rat(x[1] * y[1], x[2] * y[2])
RAdd(x, y) == Rat(x[1] * y[2] + y[1] * x[2], x[2] * y[2])
RInv(x) == <<x[2], x[1]>>

\* math.sqrt: exact on squares of rationals, otherwise rounded down to the
\* next multiple of 1/(16 d), as a float square root is rounded.
ISqrt(m) == CHOOSE k \in 0..m : k * k <= m /\ (k + 1) * (k + 1) > m
RSqrt(x) ==
    LET m == x[1] * x[2]
        k == ISqrt(m)
    IN  IF k * k = m THEN Rat(k, x[2])
        ELSE Rat(ISqrt(m * 256), 16 * x[2])

(***************************************************************************)
(* Spectral densities.  An SED object has an identity (id: negative for    *)
(* the SEDs the user supplies, the position of the node whose constructor  *)
(* made it otherwise) and a value: a base spectrum scaled by k, or an      *)
(* opaque function of wavelength.  Arithmetic on an SED returns a new      *)
(* object.                                                                 *)
(***************************************************************************)
UserSED(i) ==
    [id |-> 0 - i,
     base |-> IF i <= 2 THEN "a" ELSE "b",
     k |-> <<1, 1>>,
     wave_list |-> IF i <= 2 THEN {1, 2} ELSE {2, 3}]

UserSEDs == {UserSED(i) : i \in 1..NumSEDs}

\* galsim.SED(str(flux), 'nm', 'fphotons'): a flat spectrum of the given level.
FlatSED(flux, at) == [id |-> at, base |-> "flat", k |-> flux, wave_list |-> {}]

\* Two SED values are numerically equal: the same spectrum at the same scale.
SameValue(s, t) == s.base # "opaque" /\ s.base = t.base /\ s.k = t.k

(***************************************************************************)
(* Scalar normalizations and flux ratios: a number (call = FALSE, value v) *)
(* or a callable of wavelength (call = TRUE, identity id).                 *)
(***************************************************************************)
Scalar(v) == [call |-> FALSE, id |-> 0, v |-> v]
Func(i) == [call |-> TRUE, id |-> i, v |-> <<1, 1>>]
UserFunc == Func(0 - 1)
One == Scalar(<<1, 1>>)

\* galsim.utilities.functionize applied to a product: a number when both
\* factors are numbers, otherwise a new function of wavelength.
FnProd(x, y, at) == IF x.call \/ y.call THEN Func(at) ELSE Scalar(RMul(x.v, y.v))

\* SED * x, x a number or a callable: a new SED object.
SEDTimes(s, x, at) ==
    IF x.call
    THEN [id |-> at, base |-> "opaque", k |-> <<1, 1>>, wave_list |-> s.wave_list]
    ELSE [id |-> at, base |-> s.base, k |-> RMul(s.k, x.v), wave_list |-> s.wave_list]

\* SED + SED: a new SED object.
SEDPlus(s, t, at) ==
    IF s.base = t.base /\ s.base # "opaque"
    THEN [id |-> at, base |-> s.base, k |-> RAdd(s.k, t.k),
          wave_list |-> s.wave_list \cup t.wave_list]
    ELSE [id |-> at, base |-> "opaque", k |-> <<1, 1>>,
          wave_list |-> s.wave_list \cup t.wave_list]

(***************************************************************************)
(* The arguments of a transformation: _jac and _offset are "const" or      *)
(* "func"; flux_ratio is a number, a callable or an SED.                   *)
(***************************************************************************)
NumRatio(v) == [type |-> "scalar", x |-> Scalar(v), sed |-> None]
FuncRatio(f) == [type |-> "func", x |-> f, sed |-> None]
SEDRatio(s) == [type |-> "SED", x |-> One, sed |-> Some(s)]

\* Callable that takes an SED for a number.
CallableFunction(r) == r.type = "func"

\* hasattr(x, '__call__')
Callable(r) == r.type # "scalar"

\* functionize: the composition is a function as soon as one part is.
Compose(a, b) == IF a = "func" \/ b = "func" THEN "func" ELSE "const"
Compose3(a, b, c) == Compose(Compose(a, b), c)

\* new_flux_ratio(flx1, flx2) of two layers of transformation.
NewFluxRatio(f1, f2, at) ==
    IF Callable(f1) \/ Callable(f2) THEN FuncRatio(Func(at))
    ELSE NumRatio(RMul(f1.x.v, f2.x.v))

(***************************************************************************)
(* Nodes.                                                                  *)
(***************************************************************************)
Blank ==
    [kind |-> "", separable |-> FALSE, interpolated |-> FALSE,
     SED |-> None, norm |-> None, wave_list |-> {},
     objlist |-> <<>>, obj |-> 0, original |-> 0,
     jac |-> "const", offset |-> "const", flux_ratio |-> NumRatio(<<1, 1>>),
     chromatic |-> FALSE,
     \* self.waves and self.ims of an InterpolatedChromaticObject
     waves |-> <<>>, ims |-> <<>>,
     \* the attributes set on the object after its constructor returned
     added |-> {},
     \* the constructor's arguments, kept for the statements about them
     args |-> <<>>, given |-> None, transform |-> None]

Ok(h) == [err |-> "none", heap |-> h]
Fail(e, h) == [err |-> e, heap |-> h]
New(h) == Len(h) + 1
Top(h) == h[Len(h)]

\* combine_wave_list: the union of the knots of its arguments.
CombineWaveList(lists) == UNION lists

\* Chromatic.__init__(gsobj, SED), flux the flux of gsobj.
Chromatic(h, flux, sed) ==
    Ok(Append(h, [Blank EXCEPT
        !.kind = "Chromatic",
        !.SED = Some(SEDTimes(sed, Scalar(<<flux, 1>>), New(h))),
        !.norm = None,
        !.wave_list = sed.wave_list,
        !.separable = TRUE,
        !.interpolated = FALSE,
        !.given = Some(sed)]))

\* ChromaticObjectGS with _norm = 1.0 set whatever the flux.
ChromaticObjectGSNormAlways(h, flux) ==
    Ok(Append(h,
        [Blank EXCEPT !.kind = "ChromaticObject", !.separable = TRUE,
                      !.SED = IF flux = 1 THEN None
                              ELSE Some(FlatSED(<<flux, 1>>, New(h))),
                      !.norm = Some(One)]))

\* ChromaticObject.__init__(obj), obj a GSObject of the given flux.
ChromaticObjectGS(h, flux) ==
    Ok(Append(h,
        IF flux = 1
        THEN [Blank EXCEPT !.kind = "ChromaticObject", !.separable = TRUE,
                           !.SED = None, !.norm = Some(One)]
        ELSE [Blank EXCEPT !.kind = "ChromaticObject", !.separable = TRUE,
                           !.SED = Some(FlatSED(<<flux, 1>>, New(h))),
                           !.norm = None]))

\* ChromaticObject.__init__(obj), obj a ChromaticObject.
ChromaticObject(h, i) ==
    Ok(Append(h, [Blank EXCEPT
        !.kind = "ChromaticObject",
        !.separable = h[i].separable,
        !.interpolated = h[i].interpolated,
        !.wave_list = h[i].wave_list,
        !.obj = i,
        !.SED = h[i].SED,
        !.norm = h[i].norm,
        !.args = <<i>>]))

\* ChromaticAtmosphere, ChromaticOpticalPSF, ChromaticAiry: an inseparable
\* profile without SED.
ChromaticPSF(h) ==
    Ok(Append(h, [Blank EXCEPT
        !.kind = "ChromaticPSF",
        !.separable = FALSE,
        !.interpolated = FALSE,
        !.SED = None,
        !.norm = Some(One)]))

(***************************************************************************)
(* The composite constructors and _deinterpolate call one another.         *)
(***************************************************************************)
RECURSIVE ChromaticTransformation(_, _, _, _, _)
RECURSIVE ChromaticSum(_, _)
RECURSIVE ChromaticConvolution(_, _)
RECURSIVE Unary(_, _, _)
RECURSIVE Deinterpolate(_, _)
RECURSIVE DeinterpolateAll(_, _, _)

\* any(a.SED is not None for a in args), any(a._norm is not None for a in args)
IsSEDed(h, args) == \E p \in 1..Len(args) : ~IsNone(h[args[p]].SED)

\* IsNormed with all() in the place of any().
IsNormedAll(h, args) == \A p \in 1..Len(args) : ~IsNone(h[args[p]].norm)

IsNormed(h, args) == \E p \in 1..Len(args) : ~IsNone(h[args[p]].norm)

\* Equality of two SED objects used as dictionary keys: the same object.
SameSED(s, t) == s.id = t.id

\* Equality of two _norm values used as dictionary keys: numbers by value,
\* callables by identity.
SameNorm(x, y) ==
    IF x.call \/ y.call THEN x.call /\ y.call /\ x.id = y.id ELSE x.v = y.v

\* The norm_dict key of a summand, and the test `key in norm_dict`.
NormKey(h, isSEDed, i) == IF isSEDed THEN h[i].SED ELSE h[i].norm
SameKey(isSEDed, a, b) ==
    IF IsNone(a) \/ IsNone(b) THEN IsNone(a) /\ IsNone(b)
    ELSE IF isSEDed THEN SameSED(The(a), The(b)) ELSE SameNorm(The(a), The(b))

\* norm_dict that keeps the first summand of each key only.
RECURSIVE NormDictFirst(_, _, _, _)
NormDictFirst(h, isSEDed, seps, acc) ==
    IF seps = <<>> THEN acc
    ELSE LET o == Head(seps)
             hit == {g \in 1..Len(acc) :
                        SameKey(isSEDed, NormKey(h, isSEDed, acc[g][1]),
                                NormKey(h, isSEDed, o))}
         IN  IF hit = {}
             THEN NormDictFirst(h, isSEDed, Tail(seps), Append(acc, <<o>>))
             ELSE NormDictFirst(h, isSEDed, Tail(seps), acc)

\* norm_dict: the separable summands grouped by key, the groups in the order
\* in which their keys were first met.
RECURSIVE NormDict(_, _, _, _)
NormDict(h, isSEDed, seps, acc) ==
    IF seps = <<>> THEN acc
    ELSE LET o == Head(seps)
             hit == {g \in 1..Len(acc) :
                        SameKey(isSEDed, NormKey(h, isSEDed, acc[g][1]),
                                NormKey(h, isSEDed, o))}
         IN  IF hit = {}
             THEN NormDict(h, isSEDed, Tail(seps), Append(acc, <<o>>))
             ELSE LET g == CHOOSE g \in hit : TRUE
                  IN  NormDict(h, isSEDed, Tail(seps),
                               [acc EXCEPT ![g] = Append(@, o)])

\* The loop over norm_dict.values() of an inseparable sum: a group of one is
\* appended as it is, a larger group as a new ChromaticSum.
RECURSIVE PartialSums(_, _, _)
PartialSums(h, groups, ids) ==
    IF groups = <<>> THEN [heap |-> h, ids |-> ids]
    ELSE LET v == Head(groups)
         IN  IF Len(v) = 1
             THEN PartialSums(h, Tail(groups), Append(ids, v[1]))
             ELSE LET With(r) ==
                        PartialSums(r.heap, Tail(groups), Append(ids, Len(r.heap)))
                  IN  With(ChromaticSum(h, v))

\* self.SED = objlist[0].SED, then self.SED += obj.SED for the others.
RECURSIVE SumSED(_, _, _, _)
SumSED(h, acc, rest, at) ==
    IF rest = <<>> THEN acc
    ELSE SumSED(h, SEDPlus(acc, The(h[Head(rest)].SED), at), Tail(rest), at)

\* sum(obj._norm for obj in objlist) of numbers.
RECURSIVE SumNorm(_, _)
SumNorm(h, ids) ==
    IF Len(ids) = 1 THEN The(h[ids[1]].norm).v
    ELSE RAdd(The(h[Head(ids)].norm).v, SumNorm(h, Tail(ids)))

\* SumWaveList that keeps the wave_list of the last summand only.
SumWaveListLast(h, objlist) == h[objlist[Len(objlist)]].wave_list

\* self.wave_list: np.union1d over self.objlist, from the empty array.
SumWaveList(h, objlist) == UNION {h[objlist[p]].wave_list : p \in 1..Len(objlist)}

\* SumSeparable without the test that no summand is inseparable.
SumSeparableOneGroup(inseps, norm_dict) == Len(norm_dict) = 1

\* self.separable = (len(self.objlist) == 0 and len(norm_dict) == 1)
SumSeparable(inseps, norm_dict) == inseps = <<>> /\ Len(norm_dict) = 1

\* ChromaticSum.__init__(args)
ChromaticSum(h, args) ==
    LET isSEDed == IsSEDed(h, args)
        isNormed == IsNormed(h, args)
        seps == SelectSeq(args, LAMBDA i : h[i].separable)
        inseps == SelectSeq(args, LAMBDA i : ~h[i].separable)
        norm_dict == NormDict(h, isSEDed, seps, <<>>)
        separable == SumSeparable(inseps, norm_dict)
    IN  IF isSEDed /\ isNormed THEN Fail("InvalidComposition", h)
        ELSE IF separable
        THEN LET group == norm_dict[1]
                 the_one_norm == NormKey(h, isSEDed, group[1])
                 n == Scalar(<<Len(group), 1>>)
             IN  Ok(Append(h, [Blank EXCEPT
                    !.kind = "ChromaticSum",
                    !.separable = TRUE,
                    !.interpolated = \E p \in 1..Len(args) : h[args[p]].interpolated,
                    !.objlist = group,
                    !.SED = IF isSEDed
                            THEN Some(SEDTimes(The(the_one_norm), n, New(h)))
                            ELSE None,
                    !.norm = IF isSEDed THEN None
                             ELSE IF The(the_one_norm).call THEN Some(Func(New(h)))
                             ELSE Some(Scalar(RMul(The(the_one_norm).v, n.v))),
                    !.wave_list = SumWaveList(h, group),
                    !.args = args]))
        ELSE LET With(ps) ==
               LET
                 h2 == ps.heap
                 objlist == inseps \o ps.ids
                 at == New(h2)
               IN
                 \* adding an SED or a number to None is a TypeError
                 IF \E p \in 1..Len(objlist) :
                        IsNone(NormKey(h2, isSEDed, objlist[p]))
                 THEN Fail("TypeError", h)
                 ELSE
                 Ok(Append(h2, [Blank EXCEPT
                    !.kind = "ChromaticSum",
                    !.separable = FALSE,
                    !.interpolated = \E p \in 1..Len(args) : h[args[p]].interpolated,
                    !.objlist = objlist,
                    !.SED = IF isSEDed
                            THEN IF Len(objlist) = 1 THEN h2[objlist[1]].SED
                                 ELSE Some(SumSED(h2, The(h2[objlist[1]].SED),
                                                  Tail(objlist), at))
                            ELSE None,
                    !.norm = IF isSEDed THEN None
                             ELSE IF \E p \in 1..Len(objlist) :
                                        The(h2[objlist[p]].norm).call
                             THEN Some(Func(at))
                             ELSE Some(Scalar(SumNorm(h2, objlist))),
                    !.wave_list = SumWaveList(h2, objlist),
                    !.args = args]))
             IN  With(PartialSums(h, norm_dict, <<>>))

\* The fold of fn_prod over the _norm of the convolutants without SED.
RECURSIVE ConvNorm(_, _, _, _)
ConvNorm(h, acc, rest, at) ==
    IF rest = <<>> THEN acc
    ELSE IF IsNone(h[Head(rest)].SED)
    THEN ConvNorm(h, FnProd(acc, The(h[Head(rest)].norm), at), Tail(rest), at)
    ELSE ConvNorm(h, acc, Tail(rest), at)

\* Unfold that appends every argument as it is.
NoUnfold(h, args) == args

\* Unfold convolution of convolution.
RECURSIVE Unfold(_, _)
Unfold(h, args) ==
    IF args = <<>> THEN <<>>
    ELSE IF h[Head(args)].kind = "ChromaticConvolution"
    THEN h[Head(args)].objlist \o Unfold(h, Tail(args))
    ELSE <<Head(args)>> \o Unfold(h, Tail(args))

\* MultipleSEDs without the raise: the first SED met is kept.
MultipleSEDsAllowed(h, args) == FALSE

\* The convolutants with an SED, and the test that raises on the second one.
ConvSEDs(h, args) == SelectSeq(args, LAMBDA i : ~IsNone(h[i].SED))
MultipleSEDs(h, args) == Len(ConvSEDs(h, args)) > 1

\* ChromaticConvolution.__init__(args)
ChromaticConvolution(h, args) ==
    LET withSED == ConvSEDs(h, args)
        at == New(h)
        norm == ConvNorm(h, One, args, at)
        objlist == Unfold(h, args)
    IN  IF MultipleSEDs(h, args) THEN Fail("InvalidComposition", h)
        ELSE Ok(Append(h, [Blank EXCEPT
                !.kind = "ChromaticConvolution",
                !.SED = IF withSED = <<>> THEN None
                        ELSE Some(SEDTimes(The(h[withSED[1]].SED), norm, at)),
                !.norm = IF withSED = <<>> THEN Some(norm) ELSE None,
                !.objlist = objlist,
                !.separable = \A p \in 1..Len(objlist) : h[objlist[p]].separable,
                !.interpolated = \E p \in 1..Len(objlist) : h[objlist[p]].interpolated,
                !.wave_list = CombineWaveList({h[objlist[p]].wave_list :
                                                  p \in 1..Len(objlist)}),
                !.args = args]))

\* The _norm of ChromaticDeconvolution, ChromaticAutoConvolution,
\* ChromaticAutoCorrelation and ChromaticFourierSqrtProfile.
UnaryNorm(kind, x, at) ==
    IF x.call THEN Func(at)
    ELSE IF kind = "ChromaticDeconvolution" THEN Scalar(RInv(x.v))
    ELSE IF kind = "ChromaticFourierSqrtProfile" THEN Scalar(RSqrt(x.v))
    ELSE Scalar(RMul(x.v, x.v))

\* Unary that leaves the new node's interpolated flag at False.
UnaryNotInterpolated(h, kind, i) ==
    IF ~IsNone(h[i].SED) THEN Fail("InvalidComposition", h)
    ELSE Ok(Append(h, [Blank EXCEPT
            !.kind = kind,
            !.obj = i,
            !.separable = h[i].separable,
            !.interpolated = FALSE,
            !.SED = None,
            !.wave_list = h[i].wave_list,
            !.norm = Some(UnaryNorm(kind, The(h[i].norm), New(h))),
            !.args = <<i>>]))

\* The __init__(obj) shared by the four classes above.
Unary(h, kind, i) ==
    IF ~IsNone(h[i].SED) THEN Fail("InvalidComposition", h)
    ELSE Ok(Append(h, [Blank EXCEPT
            !.kind = kind,
            !.obj = i,
            !.separable = h[i].separable,
            !.interpolated = h[i].interpolated,
            !.SED = None,
            !.wave_list = h[i].wave_list,
            !.norm = Some(UnaryNorm(kind, The(h[i].norm), New(h))),
            !.args = <<i>>]))

\* IsChromatic that does not look at flux_ratio.
IsChromaticGeometry(jac, offset, flux_ratio) == jac = "func" \/ offset = "func"

\* self.chromatic
IsChromatic(jac, offset, flux_ratio) ==
    jac = "func" \/ offset = "func" \/ Callable(flux_ratio)

\* ChromaticTransformation.__init__(obj, jac, offset, flux_ratio)
ChromaticTransformation(h, i, jac, offset, flux_ratio) ==
    LET chromatic == IsChromatic(jac, offset, flux_ratio)
        \* d: obj, or obj.deinterpolated
        With(d) ==
          LET
            h2 == d.heap
            obj == h2[d.id]
            at == New(h2)
            nested == obj.kind = "ChromaticTransformation"
            original == IF nested THEN obj.original ELSE d.id
            SED == IF flux_ratio.type = "SED"
                   THEN Some(SEDTimes(The(flux_ratio.sed), The(h[i].norm), at))
                   ELSE IF ~IsNone(h[i].SED)
                   THEN Some(SEDTimes(The(h[i].SED), flux_ratio.x, at))
                   ELSE None
          IN
            IF d.err # "none" THEN Fail(d.err, h)
            ELSE Ok(Append(h2, [Blank EXCEPT
                !.kind = "ChromaticTransformation",
                !.chromatic = chromatic,
                !.separable = h[i].separable /\ ~chromatic,
                !.SED = SED,
                !.norm = IF IsNone(SED)
                         THEN Some(FnProd(The(h[i].norm), flux_ratio.x, at))
                         ELSE None,
                !.interpolated = obj.interpolated,
                !.original = original,
                !.jac = IF nested THEN Compose(obj.jac, jac) ELSE jac,
                !.offset = IF nested THEN Compose3(jac, obj.offset, offset)
                           ELSE offset,
                !.flux_ratio = IF nested
                               THEN NewFluxRatio(obj.flux_ratio, flux_ratio, at)
                               ELSE flux_ratio,
                !.wave_list = IF ~IsNone(SED)
                              THEN CombineWaveList({h2[original].wave_list,
                                                    The(SED).wave_list})
                              ELSE h2[original].wave_list,
                !.args = <<i>>,
                !.transform = Some([jac |-> jac, offset |-> offset,
                                    flux_ratio |-> flux_ratio])]))
    IN  IF flux_ratio.type = "SED" /\ ~IsNone(h[i].SED)
        THEN Fail("InvalidComposition", h)
        ELSE With(IF h[i].interpolated /\ chromatic THEN Deinterpolate(h, i)
                  ELSE [err |-> "none", heap |-> h, id |-> i])

\* [obj.deinterpolated for obj in objlist]
DeinterpolateAll(h, ids, done) ==
    IF ids = <<>> THEN [err |-> "none", heap |-> h, ids |-> done]
    ELSE LET With(d) ==
                IF d.err # "none" THEN [err |-> d.err, heap |-> h, ids |-> done]
                ELSE DeinterpolateAll(d.heap, Tail(ids), Append(done, d.id))
         IN  With(Deinterpolate(h, Head(ids)))

\* A constructor's result as the result of _deinterpolate.
Built(result) ==
    LET With(r) == [err |-> r.err, heap |-> r.heap, id |-> Len(r.heap)]
    IN  With(result)

\* obj._deinterpolate(), by class.
Deinterpolate(h, i) ==
    LET self == h[i]
        same == [err |-> "none", heap |-> h, id |-> i]
    IN  CASE self.kind = "ChromaticObject" ->
                \* self.obj._deinterpolate(); a wrapped GSObject is its own
                \* deinterpolated version, and the wrapper stands for it here.
                IF self.obj = 0 THEN same ELSE Deinterpolate(h, self.obj)
          [] self.kind = "InterpolatedChromaticObject" ->
                [err |-> "none", heap |-> h, id |-> self.original]
          [] self.kind = "ChromaticTransformation" ->
                IF self.interpolated
                THEN LET With(d) ==
                            IF d.err # "none" THEN d
                            ELSE Built(ChromaticTransformation(d.heap, d.id,
                                    self.jac, self.offset, self.flux_ratio))
                     IN  With(Deinterpolate(h, self.original))
                ELSE same
          [] self.kind \in {"ChromaticSum", "ChromaticConvolution"} ->
                IF self.interpolated
                THEN LET With(d) ==
                            IF d.err # "none"
                            THEN [err |-> d.err, heap |-> h, id |-> i]
                            ELSE IF self.kind = "ChromaticSum"
                            THEN Built(ChromaticSum(d.heap, d.ids))
                            ELSE Built(ChromaticConvolution(d.heap, d.ids))
                     IN  With(DeinterpolateAll(h, self.objlist, <<>>))
                ELSE same
          [] self.kind \in {"ChromaticDeconvolution", "ChromaticAutoConvolution",
                            "ChromaticAutoCorrelation",
                            "ChromaticFourierSqrtProfile"} ->
                IF self.interpolated
                THEN LET With(d) ==
                            IF d.err # "none" THEN d
                            ELSE Built(Unary(d.heap, self.kind, d.id))
                     IN  With(Deinterpolate(h, self.obj))
                ELSE same
          [] OTHER -> same

(***************************************************************************)
(* evaluateAtWavelength.  The monochromatic profile returned is a term:    *)
(* <<"prof", i, wave>> is the profile that the object i without            *)
(* ChromaticObject parts makes at the wavelength, <<"interp", i, idx,      *)
(* frac>> the linear interpolation between the stored images idx and       *)
(* idx + 1 of the object i, and the others are the galsim operations       *)
(* applied to the terms of the parts; <<"Transformation", jac, offset,     *)
(* flux_ratio, wave, term>> is the term transformed by the jac, offset and *)
(* flux_ratio at the wavelength.                                           *)
(***************************************************************************)
Value(v) == [err |-> "none", val |-> v]
NoValue(e) == [err |-> e, val |-> <<>>]

\* np.sort
RECURSIVE Sort(_)
Sort(s) ==
    IF s = <<>> THEN <<>>
    ELSE LET m == CHOOSE p \in 1..Len(s) : \A q \in 1..Len(s) : s[p] <= s[q]
         IN  <<s[m]>> \o Sort(SubSeq(s, 1, m - 1) \o SubSeq(s, m + 1, Len(s)))

\* np.min, np.max
Min(s) == CHOOSE x \in {s[p] : p \in 1..Len(s)} : \A q \in 1..Len(s) : x <= s[q]
Max(s) == CHOOSE x \in {s[p] : p \in 1..Len(s)} : \A q \in 1..Len(s) : x >= s[q]

\* _findWave(wave_list, wave): the index below (counted from 0) and the
\* fraction of the way to the next entry, as <<numerator, denominator>>; a
\* denominator of 0 is the division of 0.0 by 0.0.  np.searchsorted gives the
\* number of entries less than wave.
FindWave(wave_list, wave) ==
    LET found == Cardinality({p \in 1..Len(wave_list) : wave_list[p] < wave}) - 1
        low == IF found < 0 THEN 0 ELSE found
        lower_idx == IF low > Len(wave_list) - 1 THEN Len(wave_list) - 1 ELSE low
    IN  IF lower_idx + 2 > Len(wave_list)
        THEN [err |-> "IndexError", lower_idx |-> lower_idx, frac |-> <<0, 1>>]
        ELSE [err |-> "none", lower_idx |-> lower_idx,
              frac |-> <<wave - wave_list[lower_idx + 1],
                         wave_list[lower_idx + 2] - wave_list[lower_idx + 1]>>]

\* InterpolatedChromaticObject._imageAtWavelength and evaluateAtWavelength
ImageAtWavelength(h, i, wave) ==
    IF wave < Min(h[i].waves) \/ wave > Max(h[i].waves) THEN NoValue("OutOfRange")
    ELSE LET found == FindWave(h[i].waves, wave)
         IN  IF found.err # "none" THEN NoValue(found.err)
             ELSE Value(<<"interp", i, found.lower_idx, found.frac>>)

RECURSIVE EvaluateAtWavelength(_, _, _)
RECURSIVE EvaluateEach(_, _, _)

\* [obj.evaluateAtWavelength(wave) for obj in objlist]
EvaluateEach(h, ids, wave) ==
    IF ids = <<>> THEN Value(<<>>)
    ELSE LET With(first, rest) ==
                IF first.err # "none" THEN first
                ELSE IF rest.err # "none" THEN rest
                ELSE Value(<<first.val>> \o rest.val)
         IN  With(EvaluateAtWavelength(h, Head(ids), wave),
                  EvaluateEach(h, Tail(ids), wave))

\* The galsim operation op applied to what was evaluated.
Applied(op, evaluated) ==
    LET With(r) == IF r.err # "none" THEN r ELSE Value(<<op, r.val>>)
    IN  With(evaluated)

\* galsim.Transformation of what was evaluated, with the jac, offset and
\* flux_ratio of the object self at the wavelength.
Transformed(self, wave, evaluated) ==
    LET With(r) ==
            IF r.err # "none" THEN r
            ELSE Value(<<"Transformation", self.jac, self.offset,
                         self.flux_ratio, wave, r.val>>)
    IN  With(evaluated)

\* obj.evaluateAtWavelength(wave), by class.
EvaluateAtWavelength(h, i, wave) ==
    LET self == h[i]
    IN  CASE self.kind = "ChromaticObject" ->
                IF self.obj = 0 THEN Value(<<"prof", i, wave>>)
                ELSE EvaluateAtWavelength(h, self.obj, wave)
          [] self.kind = "InterpolatedChromaticObject" ->
                ImageAtWavelength(h, i, wave)
          [] self.kind = "ChromaticTransformation" ->
                Transformed(self, wave,
                            EvaluateAtWavelength(h, self.original, wave))
          [] self.kind = "ChromaticSum" ->
                Applied("Add", EvaluateEach(h, self.objlist, wave))
          [] self.kind = "ChromaticConvolution" ->
                Applied("Convolve", EvaluateEach(h, self.objlist, wave))
          [] self.kind = "ChromaticDeconvolution" ->
                Applied("Deconvolve", EvaluateEach(h, <<self.obj>>, wave))
          [] self.kind = "ChromaticAutoConvolution" ->
                Applied("AutoConvolve", EvaluateEach(h, <<self.obj>>, wave))
          [] self.kind = "ChromaticAutoCorrelation" ->
                Applied("AutoCorrelate", EvaluateEach(h, <<self.obj>>, wave))
          [] self.kind = "ChromaticFourierSqrtProfile" ->
                Applied("FourierSqrt", EvaluateEach(h, <<self.obj>>, wave))
          [] OTHER -> Value(<<"prof", i, wave>>)

\* [original.evaluateAtWavelength(wave) for wave in self.waves]
RECURSIVE EvaluateAtEach(_, _, _)
EvaluateAtEach(h, i, waves) ==
    IF waves = <<>> THEN Value(<<>>)
    ELSE LET With(first, rest) ==
                IF first.err # "none" THEN first
                ELSE IF rest.err # "none" THEN rest
                ELSE Value(<<first.val>> \o rest.val)
         IN  With(EvaluateAtWavelength(h, i, Head(waves)),
                  EvaluateAtEach(h, i, Tail(waves)))

\* The wavelengths of the stored images when none are given.
DefaultWaves == <<1, 2>>

\* InterpolatedChromaticObject.__init__(original, waves): the images stored
\* are those of original.evaluateAtWavelength at the sorted wavelengths.
InterpolatedChromaticObject(h, i, waves) ==
    LET With(d, objs) ==
            IF d.err # "none" THEN Fail(d.err, h)
            ELSE IF objs.err # "none" THEN Fail(objs.err, h)
            ELSE Ok(Append(d.heap, [Blank EXCEPT
                    !.kind = "InterpolatedChromaticObject",
                    !.separable = h[i].separable,
                    !.interpolated = TRUE,
                    !.SED = h[i].SED,
                    !.norm = h[i].norm,
                    !.wave_list = h[i].wave_list,
                    !.original = d.id,
                    !.waves = Sort(waves),
                    !.ims = objs.val,
                    !.args = <<i>>]))
    IN  With(Deinterpolate(h, i), EvaluateAtEach(h, i, Sort(waves)))

(***************************************************************************)
(* drawImage.  The result is the error raised ("none" when the image is    *)
(* returned) and the log of what the call did up to there: "fiducial" (a   *)
(* fiducial profile was evaluated), "setup" (the output image was set up), *)
(* "multiplier_cache" and "effective_prof_cache" (a cache was consulted),  *)
(* "integrate" (the profile was integrated over wavelength sample by       *)
(* sample), "interp_image" (stored images were integrated) and "write"     *)
(* (the image was drawn onto).  It also holds the attributes stored on     *)
(* objects, as <<object, attribute>>, and what was done to the image       *)
(* given: whether it was set to zero, and the terms then added to it.  A   *)
(* term is <<"multiplier", SED, wavelengths, profile>> (the profile times  *)
(* the integral of the SED over the wavelengths), <<"integrate", rule,     *)
(* wavelengths, profiles>> (the integral by the rule of the profiles at    *)
(* the wavelengths) or <<"Convolve", profiles>>, of profiles <<"spatial",  *)
(* profile>> (a profile divided by its SED or norm) and                    *)
(* <<"InterpolatedImage", terms>> (an image drawn as a profile).           *)
(***************************************************************************)
Done(log) ==
    [err |-> "none", log |-> log, stored |-> {}, reset |-> FALSE, terms |-> <<>>]
Raise(e, log) ==
    [err |-> e, log |-> log, stored |-> {}, reset |-> FALSE, terms |-> <<>>]

\* r, then (when r raised nothing) the rest: the logs in sequence, the
\* attributes stored by both, and the image of r as the rest leaves it.
Then(first, second) ==
    LET With(r, rest) ==
            IF r.err # "none" THEN r
            ELSE [err |-> rest.err, log |-> r.log \o rest.log,
                  stored |-> r.stored \cup rest.stored,
                  reset |-> r.reset \/ rest.reset,
                  terms |-> IF rest.reset THEN rest.terms
                            ELSE r.terms \o rest.terms]
    IN  With(first, second)

\* The image is added to whatever add_to_image says.
WriteAdding(add_to_image, term) ==
    [Done(<<"write">>) EXCEPT !.reset = FALSE, !.terms = <<term>>]

\* The image is drawn onto: set to zero unless add_to_image, then the term
\* is added.
Write(add_to_image, term) ==
    [Done(<<"write">>) EXCEPT !.reset = ~add_to_image, !.terms = <<term>>]

Integrators == {"trapezoidal", "midpoint", "simpson"}

\* The bandpass of the drawings: bandpass.wave_list,
\* bandpass.effective_wavelength and bandpass.red_limit.
BandpassWaveList == {1, 2}
EffectiveWavelength == 1
RedLimit == 2

RECURSIVE Ascending(_)
Ascending(S) ==
    IF S = {} THEN <<>>
    ELSE LET m == CHOOSE x \in S : \A y \in S : x <= y
         IN  <<m>> \o Ascending(S \ {m})

\* wave_list, _, _ = galsim.utilities.combine_wave_list([self, bandpass])
Samples(self) == Ascending(CombineWaveList({self.wave_list, BandpassWaveList}))

\* BaseDrawImage with the SED test after the fiducial profile.
BaseDrawImageLateCheck(h, i, integrator, add_to_image) ==
    LET self == h[i]
        Integrated(objs) ==
            IF objs.err # "none" THEN Raise(objs.err, <<"fiducial", "setup">>)
            ELSE [Then(Done(<<"fiducial", "setup", "integrate">>),
                       Write(add_to_image, <<"integrate", integrator,
                                            Samples(self), objs.val>>))
                  EXCEPT !.stored = {<<i, "_last_n_eval">>}]
        Set(prof0) ==
            IF prof0.err # "none" THEN Raise(prof0.err, <<>>)
            ELSE IF IsNone(self.SED) THEN Raise("MissingSED", <<"fiducial">>)
            ELSE IF self.separable
            THEN Then(Done(<<"fiducial", "setup", "multiplier_cache">>),
                      Write(add_to_image, <<"multiplier", The(self.SED),
                                            Samples(self), prof0.val>>))
            ELSE IF integrator \notin {"trapezoidal", "midpoint"}
            THEN Raise("UnknownQuadratureRule", <<"fiducial", "setup">>)
            ELSE Integrated(EvaluateAtEach(h, i, Samples(self)))
    IN  Set(EvaluateAtWavelength(h, i, EffectiveWavelength))

\* ChromaticObject.drawImage: the separable object is its fiducial profile
\* times the multiplier of its SED over the wavelengths; the other is
\* integrated over its profiles at the wavelengths, and the number of
\* evaluations is stored on it.
BaseDrawImage(h, i, integrator, add_to_image) ==
    LET self == h[i]
        Integrated(objs) ==
            IF objs.err # "none" THEN Raise(objs.err, <<"fiducial", "setup">>)
            ELSE [Then(Done(<<"fiducial", "setup", "integrate">>),
                       Write(add_to_image, <<"integrate", integrator,
                                            Samples(self), objs.val>>))
                  EXCEPT !.stored = {<<i, "_last_n_eval">>}]
        Set(prof0) ==
            IF prof0.err # "none" THEN Raise(prof0.err, <<>>)
            ELSE IF self.separable
            THEN Then(Done(<<"fiducial", "setup", "multiplier_cache">>),
                      Write(add_to_image, <<"multiplier", The(self.SED),
                                            Samples(self), prof0.val>>))
            ELSE IF integrator \notin {"trapezoidal", "midpoint"}
            THEN Raise("UnknownQuadratureRule", <<"fiducial", "setup">>)
            ELSE Integrated(EvaluateAtEach(h, i, Samples(self)))
    IN  IF IsNone(self.SED) THEN Raise("MissingSED", <<>>)
        ELSE Set(EvaluateAtWavelength(h, i, EffectiveWavelength))

\* [_findWave(self.waves, w) for w in wave_list] as interpolations between
\* the stored images of the object i.
RECURSIVE FindEach(_, _, _)
FindEach(h, i, waves) ==
    IF waves = <<>> THEN Value(<<>>)
    ELSE LET With(found, rest) ==
                IF found.err # "none" THEN NoValue(found.err)
                ELSE IF rest.err # "none" THEN rest
                ELSE Value(<<<<"interp", i, found.lower_idx, found.frac>>>>
                           \o rest.val)
         IN  With(FindWave(h[i].waves, Head(waves)),
                  FindEach(h, i, Tail(waves)))

\* InterpolatedChromaticObject._get_interp_image: the stored images of the
\* object i weighted by the interpolations at the wavelengths; the one term
\* of the result is the profile returned.
GetInterpImage(h, i, integrator) ==
    LET self == h[i]
        Weighted(found) ==
            IF found.err # "none" THEN Raise(found.err, <<"fiducial", "setup">>)
            ELSE [Done(<<"fiducial", "setup", "interp_image">>) EXCEPT
                      !.terms = <<<<"integrate", integrator, Samples(self),
                                     found.val>>>>]
        Set(prof0) ==
            IF prof0.err # "none" THEN Raise(prof0.err, <<>>)
            ELSE IF \/ Min(Samples(self)) < Min(self.waves)
                    \/ Max(Samples(self)) > Max(self.waves)
            THEN Raise("OutOfRange", <<"fiducial", "setup">>)
            ELSE Weighted(FindEach(h, i, Samples(self)))
    IN  IF integrator \notin {"trapezoidal", "midpoint"}
        THEN Raise("UnknownQuadratureRule", <<>>)
        ELSE Set(EvaluateAtWavelength(h, i, EffectiveWavelength))

\* image = int_im.drawImage(image=image, **kwargs), int_im the profile that
\* made returned, transformed as the ChromaticTransformation of transformed
\* (when there is one) transforms at bandpass.red_limit.
DrawProfile(made, add_to_image, transformed) ==
    LET With(r) ==
            IF r.err # "none" THEN r
            ELSE Then([r EXCEPT !.terms = <<>>],
                      Write(add_to_image,
                            IF transformed = <<>> THEN r.terms[1]
                            ELSE <<"Transformation", transformed[1].jac,
                                   transformed[1].offset,
                                   transformed[1].flux_ratio, RedLimit,
                                   r.terms[1]>>))
    IN  With(made)

RemoveAt(s, p) == SubSeq(s, 1, p - 1) \o SubSeq(s, p + 1, Len(s))

\* insep_obj *= _norm, for each of sep_norms: galsim.Transform(insep_obj,
\* flux_ratio=_norm) on the object made so far.
RECURSIVE TimesNorms(_, _)
TimesNorms(made, norms) ==
    LET With(b) ==
            IF norms = <<>> \/ b.err # "none" THEN b
            ELSE TimesNorms(Built(ChromaticTransformation(b.heap, b.id, "const",
                                "const",
                                IF Head(norms).call THEN FuncRatio(Head(norms))
                                ELSE NumRatio(Head(norms).v))),
                            Tail(norms))
    IN  With(made)

\* hash(obj) with the object of whichever class keeping its hash.
HashedAll(h, i) == {<<i, "_hash">>}

\* hash(obj): the ChromaticTransformations that compute their hash and keep
\* it as _hash.
RECURSIVE Hashed(_, _)
Hashed(h, i) ==
    LET self == h[i]
    IN  CASE self.kind = "ChromaticTransformation" ->
                IF "_hash" \in self.added THEN {}
                ELSE {<<i, "_hash">>} \cup Hashed(h, self.original)
          [] self.kind = "InterpolatedChromaticObject" -> Hashed(h, self.original)
          [] self.kind \in {"ChromaticSum", "ChromaticConvolution"} ->
                UNION {Hashed(h, self.objlist[p]) : p \in 1..Len(self.objlist)}
          [] self.kind \in {"ChromaticDeconvolution", "ChromaticAutoConvolution",
                            "ChromaticAutoCorrelation"} -> Hashed(h, self.obj)
          [] self.kind = "ChromaticObject" ->
                IF self.obj = 0 THEN {} ELSE Hashed(h, self.obj)
          [] OTHER -> {}

RECURSIVE DrawImage(_, _, _, _)
RECURSIVE DrawEach(_, _, _, _)
RECURSIVE DrawDistributed(_, _, _, _, _)

\* ChromaticSum.drawImage: the summands one after the other, the first with
\* the add_to_image given and the others adding.
DrawEach(h, ids, integrator, add_to_image) ==
    IF ids = <<>> THEN Done(<<>>)
    ELSE Then(DrawImage(h, Head(ids), integrator, add_to_image),
              DrawEach(h, Tail(ids), integrator, TRUE))

\* DrawDistributed that draws the convolution with the first summand only.
DrawDistributedFirst(h, others, summands, integrator, add_to_image) ==
    IF summands = <<>> THEN Done(<<>>)
    ELSE LET With(tmpobj) ==
                IF tmpobj.err # "none" THEN Raise(tmpobj.err, <<>>)
                ELSE DrawImage(tmpobj.heap, Len(tmpobj.heap), integrator,
                               add_to_image)
         IN  With(ChromaticConvolution(h, Append(others, Head(summands))))

\* ChromaticConvolution.drawImage over a ChromaticSum child: one convolution
\* per summand, each built by the constructor and drawn in turn, the first
\* with the add_to_image given and the others adding.
DrawDistributed(h, others, summands, integrator, add_to_image) ==
    IF summands = <<>> THEN Done(<<>>)
    ELSE LET With(tmpobj) ==
                IF tmpobj.err # "none" THEN Raise(tmpobj.err, <<>>)
                ELSE Then(DrawImage(tmpobj.heap, Len(tmpobj.heap), integrator,
                                    add_to_image),
                          DrawDistributed(h, others, Tail(summands), integrator,
                                          TRUE))
         IN  With(ChromaticConvolution(h, Append(others, Head(summands))))

\* ChromaticConvolution._get_effective_prof, on a cache miss: the object is
\* drawn on an image of its own, which is the profile returned.
GetEffectiveProf(h, i, integrator) ==
    Then(Done(<<"fiducial">>),
         IF h[i].kind = "ChromaticConvolution"
         THEN BaseDrawImage(h, i, integrator, FALSE)
         ELSE DrawImage(h, i, integrator, FALSE))

\* insep_obj without the SED of the separable convolutants: the inseparable
\* convolutants collapsed and the scalar normalizations.
InsepObjUnscaled(h, i) ==
    LET self == h[i]
        seps == SelectSeq(self.objlist, LAMBDA c : h[c].separable)
        insep_profs == SelectSeq(self.objlist, LAMBDA c : ~h[c].separable)
        sep_norms == SelectSeq(seps, LAMBDA c : IsNone(h[c].SED))
        Collapsed(conv) ==
            IF conv.err # "none" THEN conv
            ELSE TimesNorms(conv,
                    [p \in 1..Len(sep_norms) |-> The(h[sep_norms[p]].norm)])
    IN  Collapsed(IF Len(insep_profs) > 1
                  THEN Built(ChromaticConvolution(h, insep_profs))
                  ELSE [err |-> "none", heap |-> h, id |-> insep_profs[1]])

\* insep_obj of ChromaticConvolution.drawImage, for a convolution with at
\* most one SED among its separable convolutants and a convolutant that is
\* not separable: galsim.Convolve(insep_profs) if there are several, then
\* insep_obj *= sep_SED, then insep_obj *= _norm for each of sep_norms.
InsepObj(h, i) ==
    LET self == h[i]
        seps == SelectSeq(self.objlist, LAMBDA c : h[c].separable)
        insep_profs == SelectSeq(self.objlist, LAMBDA c : ~h[c].separable)
        sep_SEDs == SelectSeq(seps, LAMBDA c : ~IsNone(h[c].SED))
        sep_norms == SelectSeq(seps, LAMBDA c : IsNone(h[c].SED))
        Collapsed(conv) ==
            IF conv.err # "none" THEN conv
            ELSE TimesNorms(
                    IF sep_SEDs = <<>> THEN conv
                    ELSE Built(ChromaticTransformation(conv.heap, conv.id, "const",
                                   "const", SEDRatio(The(h[sep_SEDs[1]].SED)))),
                    [p \in 1..Len(sep_norms) |-> The(h[sep_norms[p]].norm)])
    IN  Collapsed(IF Len(insep_profs) > 1
                  THEN Built(ChromaticConvolution(h, insep_profs))
                  ELSE [err |-> "none", heap |-> h, id |-> insep_profs[1]])

\* ChromaticConvolution.drawImage once no child is a ChromaticSum.
DrawAtomic(h, i, integrator, add_to_image) ==
    LET self == h[i]
        seps == SelectSeq(self.objlist, LAMBDA c : h[c].separable)
        insep_profs == SelectSeq(self.objlist, LAMBDA c : ~h[c].separable)
        sep_SEDs == SelectSeq(seps, LAMBDA c : ~IsNone(h[c].SED))
        start == <<"fiducial", "setup">> \o [p \in 1..Len(seps) |-> "fiducial"]
        \* prof0 / obj.SED(wave0) or prof0 / _norm, for each separable obj
        sep_profs ==
            [p \in 1..Len(seps) |->
                <<"spatial",
                  EvaluateAtWavelength(h, seps[p], EffectiveWavelength).val>>]
        \* final_prof.drawImage(image=image, **kwargs)
        Final(effective_prof) ==
            IF effective_prof.err # "none"
            THEN [effective_prof EXCEPT !.reset = FALSE, !.terms = <<>>]
            ELSE Then([effective_prof EXCEPT !.reset = FALSE, !.terms = <<>>],
                      Write(add_to_image,
                            <<"Convolve",
                              Append(sep_profs, <<"InterpolatedImage",
                                                  effective_prof.terms>>)>>))
        \* the effective profile of insep_obj
        Scaled(insep_obj) ==
            IF insep_obj.err # "none" THEN Raise(insep_obj.err, start)
            ELSE Final(
                    [Then(Done(start \o <<"effective_prof_cache">>),
                          GetEffectiveProf(insep_obj.heap, insep_obj.id,
                                           integrator))
                     EXCEPT !.stored = @ \cup Hashed(insep_obj.heap, insep_obj.id)])
        Set(prof0) ==
            IF prof0.err # "none" THEN Raise(prof0.err, <<>>)
            ELSE IF Len(sep_SEDs) > 1 THEN Raise("MultipleSED", start)
            ELSE IF insep_profs = <<>> THEN Raise("IndexError", start)
            ELSE Scaled(InsepObj(h, i))
    IN  Set(EvaluateAtWavelength(h, i, EffectiveWavelength))

\* obj.drawImage(bandpass, image, integrator, add_to_image), by class.
DrawImage(h, i, integrator, add_to_image) ==
    LET self == h[i]
    IN  CASE self.kind = "InterpolatedChromaticObject" ->
                IF IsNone(self.SED) THEN Raise("MissingSED", <<>>)
                ELSE DrawProfile(GetInterpImage(h, i, integrator), add_to_image,
                                 <<>>)
          [] self.kind = "ChromaticTransformation" ->
                IF IsNone(self.SED) THEN Raise("MissingSED", <<>>)
                ELSE IF h[self.original].kind = "InterpolatedChromaticObject"
                THEN DrawProfile(
                        GetInterpImage(h, self.original, integrator), add_to_image,
                        <<self>>)
                ELSE BaseDrawImage(h, i, integrator, add_to_image)
          [] self.kind = "ChromaticSum" ->
                IF IsNone(self.SED) THEN Raise("MissingSED", <<>>)
                \* the summands are drawn with the default integrator
                ELSE DrawEach(h, self.objlist, "trapezoidal", add_to_image)
          [] self.kind = "ChromaticConvolution" ->
                IF IsNone(self.SED) THEN Raise("MissingSED", <<>>)
                ELSE IF self.separable
                THEN BaseDrawImage(h, i, "trapezoidal", add_to_image)
                ELSE LET sums == {p \in 1..Len(self.objlist) :
                                    h[self.objlist[p]].kind = "ChromaticSum"}
                     IN  IF sums # {}
                         THEN LET p == CHOOSE p \in sums : \A q \in sums : p <= q
                              IN  DrawDistributed(h, RemoveAt(self.objlist, p),
                                      h[self.objlist[p]].objlist, integrator,
                                      add_to_image)
                         ELSE DrawAtomic(h, i, integrator, add_to_image)
          [] OTHER -> BaseDrawImage(h, i, integrator, add_to_image)

\* ChromaticObject.centroid: the profile is evaluated at the wavelengths of
\* the integration and the centroid of the weighted sum is returned.
Centroid(h, i) == Done(<<"evaluate">>)

\* ChromaticObject.calculateFlux
CalculateFlux(h, i) ==
    IF IsNone(h[i].SED) THEN Raise("MissingSED", <<>>) ELSE Done(<<"integrate">>)

(***************************************************************************)
(* The state machine: the program builds objects one constructor call at   *)
(* a time and draws or measures the objects it has built.  `last` is the   *)
(* latest call: its name, arguments, error and log.                        *)
(***************************************************************************)
Call(op, args) ==
    [op |-> op, args |-> args, jac |-> "const", offset |-> "const",
     flux_ratio |-> NumRatio(<<1, 1>>), integrator |-> "", err |-> "none",
     log |-> <<>>, ret |-> 0, wave |-> 0, val |-> <<>>,
     add_to_image |-> FALSE, image |-> <<>>]

Init ==
    /\ nodes = <<>>
    /\ last = Call("start", <<>>)

Ids == 1..Len(nodes)

\* The argument lists of a sum or convolution: at most MaxArgs of the objects
\* built so far, listed in the order in which they were built.
ArgLists ==
    {a \in UNION {[1..n -> Ids] : n \in 1..MaxArgs} :
        \A p \in 1..(Len(a) - 1) : a[p] <= a[p + 1]}

\* The (jac, offset, flux_ratio) arguments of a transformation.
TransformArgs ==
    {[jac |-> "const", offset |-> "const", flux_ratio |-> NumRatio(<<2, 1>>)],
     [jac |-> "func", offset |-> "const", flux_ratio |-> NumRatio(<<1, 1>>)],
     [jac |-> "const", offset |-> "func", flux_ratio |-> NumRatio(<<1, 1>>)],
     [jac |-> "const", offset |-> "const", flux_ratio |-> FuncRatio(UserFunc)],
     [jac |-> "const", offset |-> "const", flux_ratio |-> SEDRatio(UserSED(1))]}

\* The program goes on from a construction that succeeded.  A call that raised
\* and a measurement leave all that the constructors and the methods read of
\* every object as it was (the attributes they store are read by __hash__
\* alone), so whatever the program does after one of them it can do without
\* it: the runs end there.
Running == last.err = "none" /\ last.log = <<>>

\* A constructor call returns: the heap grows by what it built, or the error
\* is raised and nothing is built.  The program calls constructors while it
\* has built fewer than max objects, and builds at most max.
Construct(max, call, result) ==
    /\ Running
    /\ Len(nodes) < max
    /\ \E r \in {result} :
        /\ r.err = "none" => Len(r.heap) <= max
        /\ nodes' = IF r.err = "none" THEN r.heap ELSE nodes
        /\ last' = [call EXCEPT !.err = r.err]

\* The objects with the attributes of stored set on them.
Store(h, stored) ==
    [j \in 1..Len(h) |->
        [h[j] EXCEPT !.added = @ \cup {a[2] : a \in {b \in stored : b[1] = j}}]]

\* The image given to drawImage holds <<"prior">> before the call.
Prior == <<<<"prior">>>>

\* A method call on an existing object returns: the attributes it stored
\* are on the objects, and the image given is as the call left it.
Method(call, result) ==
    /\ Running
    /\ \E r \in {result} :
        /\ nodes' = Store(nodes, r.stored)
        /\ last' = [call EXCEPT !.err = r.err, !.log = r.log,
                                !.image = IF r.reset THEN r.terms
                                          ELSE Prior \o r.terms]

NewChromatic(max) ==
    \E flux \in 1..MaxFlux, sed \in UserSEDs :
        Construct(max, Call("Chromatic", <<>>), Chromatic(nodes, flux, sed))

\* Chromatic objects of two SEDs tabulated at different wavelengths.
NewChromaticKnots(max) ==
    \E flux \in 1..MaxFlux, sed \in {UserSED(1), UserSED(NumSEDs + 1)} :
        Construct(max, Call("Chromatic", <<>>), Chromatic(nodes, flux, sed))

NewChromaticObjectGS(max) ==
    \E flux \in 1..MaxFlux :
        Construct(max, Call("ChromaticObject", <<>>), ChromaticObjectGS(nodes, flux))

NewChromaticObject(max) ==
    \E i \in Ids :
        Construct(max, Call("ChromaticObject", <<i>>), ChromaticObject(nodes, i))

NewChromaticPSF(max) ==
    Construct(max, Call("ChromaticPSF", <<>>), ChromaticPSF(nodes))

NewTransformation(max) ==
    \E i \in Ids, t \in TransformArgs :
        Construct(max, [Call("ChromaticTransformation", <<i>>) EXCEPT
                        !.jac = t.jac, !.offset = t.offset,
                        !.flux_ratio = t.flux_ratio],
                  ChromaticTransformation(nodes, i, t.jac, t.offset, t.flux_ratio))

NewSum(max) ==
    \E a \in ArgLists :
        Construct(max, Call("ChromaticSum", a), ChromaticSum(nodes, a))

NewConvolution(max) ==
    \E a \in ArgLists :
        Construct(max, Call("ChromaticConvolution", a), ChromaticConvolution(nodes, a))

\* obj1 + obj2 and galsim.Convolve(obj1, obj2)
Pairs == {a \in ArgLists : Len(a) = 2}

NewSumOfTwo(max) ==
    \E a \in Pairs :
        Construct(max, Call("ChromaticSum", a), ChromaticSum(nodes, a))

NewConvolutionOfTwo(max) ==
    \E a \in Pairs :
        Construct(max, Call("ChromaticConvolution", a), ChromaticConvolution(nodes, a))

NewDeconvolution(max) ==
    \E i \in Ids :
        Construct(max, Call("ChromaticDeconvolution", <<i>>),
                  Unary(nodes, "ChromaticDeconvolution", i))

NewAutoConvolution(max) ==
    \E i \in Ids :
        Construct(max, Call("ChromaticAutoConvolution", <<i>>),
                  Unary(nodes, "ChromaticAutoConvolution", i))

NewAutoCorrelation(max) ==
    \E i \in Ids :
        Construct(max, Call("ChromaticAutoCorrelation", <<i>>),
                  Unary(nodes, "ChromaticAutoCorrelation", i))

NewFourierSqrt(max) ==
    \E i \in Ids :
        Construct(max, Call("ChromaticFourierSqrtProfile", <<i>>),
                  Unary(nodes, "ChromaticFourierSqrtProfile", i))

Interpolate(max) ==
    \E i \in Ids :
        Construct(max, Call("interpolate", <<i>>),
                  InterpolatedChromaticObject(nodes, i, DefaultWaves))

\* The lists of wavelengths given to interpolate: one to MaxGrid wavelengths
\* of 1..MaxWave, in any order.
WaveLists == UNION {[1..n -> 1..MaxWave] : n \in 1..MaxGrid}

\* obj.interpolate(waves)
InterpolateOn(max) ==
    \E i \in Ids, waves \in WaveLists :
        Construct(max, Call("interpolate", <<i>>),
                  InterpolatedChromaticObject(nodes, i, waves))

\* obj.evaluateAtWavelength(wave), wave from below to above the wavelengths
\* of the lists.
CallEvaluateAtWavelength ==
    /\ Running
    /\ \E i \in Ids, wave \in 0..(MaxWave + 1) :
        \E r \in {EvaluateAtWavelength(nodes, i, wave)} :
            /\ nodes' = nodes
            /\ last' = [Call("evaluateAtWavelength", <<i>>) EXCEPT
                            !.wave = wave, !.err = r.err, !.val = r.val,
                            !.log = <<"evaluate">>]

\* obj.deinterpolated: the object returned is last.ret; the objects that
\* _deinterpolate builds on the way are on the heap after the call.
CallDeinterpolated(max) ==
    /\ Running
    /\ \E i \in Ids : \E r \in {Deinterpolate(nodes, i)} :
        /\ r.err = "none" => Len(r.heap) <= max
        /\ nodes' = IF r.err = "none" THEN r.heap ELSE nodes
        /\ last' = [Call("deinterpolated", <<i>>) EXCEPT
                        !.err = r.err,
                        !.ret = IF r.err = "none" THEN r.id ELSE 0]

CallDrawImage ==
    \E i \in Ids, integrator \in Integrators, add_to_image \in BOOLEAN :
        Method([Call("drawImage", <<i>>) EXCEPT !.integrator = integrator,
                                                !.add_to_image = add_to_image],
               DrawImage(nodes, i, integrator, add_to_image))

\* obj.drawImage(bandpass, image, add_to_image=add_to_image)
CallDrawImageDefault ==
    \E i \in Ids, add_to_image \in BOOLEAN :
        Method([Call("drawImage", <<i>>) EXCEPT !.integrator = "trapezoidal",
                                                !.add_to_image = add_to_image],
               DrawImage(nodes, i, "trapezoidal", add_to_image))

\* hash(obj)
CallHash ==
    \E i \in Ids :
        Method(Call("hash", <<i>>),
               [Done(<<"hash">>) EXCEPT !.stored = Hashed(nodes, i)])

CallCentroid ==
    \E i \in Ids : Method(Call("centroid", <<i>>), Centroid(nodes, i))

CallCalculateFlux ==
    \E i \in Ids : Method(Call("calculateFlux", <<i>>), CalculateFlux(nodes, i))

Next ==
    \/ NewChromatic(MaxNodes)
    \/ NewChromaticObjectGS(MaxNodes)
    \/ NewChromaticObject(MaxNodes)
    \/ NewChromaticPSF(MaxNodes)
    \/ NewTransformation(MaxNodes)
    \/ NewSum(MaxNodes)
    \/ NewConvolution(MaxNodes)
    \/ NewDeconvolution(MaxNodes)
    \/ NewAutoConvolution(MaxNodes)
    \/ NewAutoCorrelation(MaxNodes)
    \/ NewFourierSqrt(MaxNodes)
    \/ Interpolate(MaxNodes)
    \/ CallDrawImage
    \/ CallHash
    \/ CallCentroid
    \/ CallCalculateFlux

Spec == Init /\ [][Next]_vars

\* Programs that add profiles and scaled profiles.
NextSum ==
    \/ NewChromatic(MaxDeep)
    \/ NewChromaticObjectGS(MaxDeep)
    \/ NewChromaticPSF(MaxDeep)
    \/ NewTransformation(MaxDeep)
    \/ NewSum(MaxDeep)

SpecSum == Init /\ [][NextSum]_vars

\* Sums and convolutions of galaxies and PSFs built and drawn.
NextDraw ==
    \/ NewChromaticKnots(MaxDrawn)
    \/ NewChromaticPSF(MaxDrawn)
    \/ NewSumOfTwo(MaxDrawn)
    \/ NewConvolutionOfTwo(MaxDrawn)
    \/ CallDrawImageDefault

SpecDraw == Init /\ [][NextDraw]_vars

\* Galaxies, PSFs, their transformations, sums and convolutions built and
\* drawn onto an image.
NextAccumulate ==
    \/ NewChromaticKnots(MaxDeep)
    \/ NewChromaticPSF(MaxDeep)
    \/ NewTransformation(MaxDeep)
    \/ NewSumOfTwo(MaxDeep)
    \/ NewConvolutionOfTwo(MaxDeep)
    \/ CallDrawImageDefault

SpecAccumulate == Init /\ [][NextAccumulate]_vars

\* Sums built and evaluated.
NextSumEvaluate ==
    \/ NewChromatic(MaxDeep)
    \/ NewChromaticPSF(MaxDeep)
    \/ NewTransformation(MaxDeep)
    \/ NewSum(MaxDeep)
    \/ CallEvaluateAtWavelength

SpecSumEvaluate == Init /\ [][NextSumEvaluate]_vars

\* Programs that convolve profiles and sums of profiles, and draw them.
NextConvolution ==
    \/ NewChromatic(MaxDeep)
    \/ NewChromaticPSF(MaxDeep)
    \/ NewSum(MaxDeep)
    \/ NewConvolution(MaxDeep)
    \/ CallDrawImage

SpecConvolution == Init /\ [][NextConvolution]_vars

\* Programs that transform and interpolate profiles.
NextTransformation ==
    \/ NewChromatic(MaxDeep)
    \/ NewChromaticPSF(MaxDeep)
    \/ NewTransformation(MaxDeep)
    \/ Interpolate(MaxDeep)

SpecTransformation == Init /\ [][NextTransformation]_vars

\* Programs that apply the one-argument operations to profiles, scaled
\* profiles and interpolated profiles.
NextUnary ==
    \/ NewChromaticObjectGS(MaxDeep)
    \/ NewChromaticPSF(MaxDeep)
    \/ NewTransformation(MaxDeep)
    \/ Interpolate(MaxDeep)
    \/ NewDeconvolution(MaxDeep)
    \/ NewAutoConvolution(MaxDeep)
    \/ NewAutoCorrelation(MaxDeep)
    \/ NewFourierSqrt(MaxDeep)

SpecUnary == Init /\ [][NextUnary]_vars

\* Programs over profiles whose SEDs are tabulated at different wavelengths.
NextWaveList ==
    \/ NewChromaticKnots(MaxDeep)
    \/ NewChromaticObjectGS(MaxDeep)
    \/ NewChromaticPSF(MaxDeep)
    \/ NewTransformation(MaxDeep)
    \/ NewSum(MaxDeep)
    \/ NewConvolution(MaxDeep)
    \/ NewDeconvolution(MaxDeep)
    \/ Interpolate(MaxDeep)

SpecWaveList == Init /\ [][NextWaveList]_vars

\* Programs that interpolate objects, build on interpolated objects and
\* revert the interpolation.
NextInterpolation ==
    \/ NewChromaticPSF(MaxDeep)
    \/ NewChromaticObject(MaxDeep)
    \/ NewTransformation(MaxDeep)
    \/ NewSum(MaxDeep)
    \/ NewConvolution(MaxDeep)
    \/ NewDeconvolution(MaxDeep)
    \/ Interpolate(MaxDeep)
    \/ CallDeinterpolated(MaxDeep)

SpecInterpolation == Init /\ [][NextInterpolation]_vars

\* Programs that interpolate profiles on lists of wavelengths and evaluate
\* what they built.
\* Convolutions of galaxies with PSFs, interpolated or not, built and drawn.
NextEffective ==
    \/ NewChromaticKnots(MaxDeep)
    \/ NewChromaticPSF(MaxDeep)
    \/ Interpolate(MaxDeep)
    \/ NewConvolutionOfTwo(MaxDeep)
    \/ CallDrawImage

SpecEffective == Init /\ [][NextEffective]_vars

NextEvaluate ==
    \/ NewChromaticPSF(MaxNodes)
    \/ NewTransformation(MaxNodes)
    \/ NewSum(MaxNodes)
    \/ InterpolateOn(MaxNodes)
    \/ CallEvaluateAtWavelength

SpecEvaluate == Init /\ [][NextEvaluate]_vars

(***************************************************************************)
(* The claims.                                                             *)
(***************************************************************************)
HasSED(i) == ~IsNone(nodes[i].SED)
Drawn == nodes[last.args[1]]

\* C1: after any sequence of successful constructions, every node has
\* exactly one of SED and _norm set.
C1_SEDXorNorm ==
    \A i \in Ids : IsNone(nodes[i].SED) # IsNone(nodes[i].norm)

\* A transformation by an SED of a sum without SED, and a sum with an SED.
C1_Witness ==
    \E i, j \in Ids :
        /\ nodes[i].kind = "ChromaticTransformation"
        /\ The(nodes[i].transform).flux_ratio.type = "SED"
        /\ nodes[nodes[i].args[1]].kind = "ChromaticSum"
        /\ nodes[j].kind = "ChromaticSum"
        /\ ~HasSED(j)

\* C2: drawImage on a node of any class whose SED is None raises the
\* missing-SED error before it evaluates a fiducial profile, consults a cache
\* or writes to the image.
C2_DrawWithoutSED ==
    (last.op = "drawImage" /\ ~HasSED(last.args[1]))
        => (last.err = "MissingSED" /\ last.log = <<>>)

\* drawImage was called on a convolution without SED and raised.
C2_Witness ==
    /\ last.op = "drawImage"
    /\ Drawn.kind = "ChromaticConvolution"
    /\ ~HasSED(last.args[1])
    /\ last.err = "MissingSED"

\* C3: centroid on a node whose SED is None raises the missing-SED error, as
\* calculateFlux does, and evaluates nothing.
C3_CentroidWithoutSED ==
    (last.op = "centroid" /\ ~HasSED(last.args[1]))
        => (last.err = "MissingSED" /\ last.log = <<>>)

\* The positions of a list of objects that carry an SED.
SEDPositions(ids) == {p \in 1..Len(ids) : HasSED(ids[p])}

\* C4: a ChromaticConvolution of arguments of which two or more carry an SED
\* raises the invalid-composition error and builds nothing; every
\* convolution built, also from convolutions unfolded into it, has at most one
\* child with an SED; and drawImage never raises the error of more than one
\* separable SED.
C4_OneSEDPerConvolution ==
    /\ [][(last'.op = "ChromaticConvolution"
            /\ Cardinality({p \in 1..Len(last'.args) :
                               ~IsNone(nodes[last'.args[p]].SED)}) >= 2)
          => (last'.err = "InvalidComposition" /\ nodes' = nodes)]_vars
    /\ [](\A i \in Ids : nodes[i].kind = "ChromaticConvolution"
              => Cardinality(SEDPositions(nodes[i].objlist)) <= 1)
    /\ [](last.op = "drawImage" => last.err # "MultipleSED")

\* A convolution of a convolution with an SED and of another object with an
\* SED was refused.
C4_Witness ==
    /\ last.op = "ChromaticConvolution"
    /\ last.err = "InvalidComposition"
    /\ \E p, q \in 1..Len(last.args) :
        /\ p # q
        /\ nodes[last.args[p]].kind = "ChromaticConvolution"
        /\ HasSED(last.args[p])
        /\ HasSED(last.args[q])

UnaryKinds ==
    {"ChromaticDeconvolution", "ChromaticAutoConvolution",
     "ChromaticAutoCorrelation", "ChromaticFourierSqrtProfile"}

C6_SumNeverMixes ==
    /\ (last.op = "ChromaticSum"
            /\ (\E p \in 1..Len(last.args) : HasSED(last.args[p]))
            /\ (\E p \in 1..Len(last.args) : ~HasSED(last.args[p])))
        => last.err = "InvalidComposition"
    /\ \A i \in Ids : nodes[i].kind = "ChromaticSum"
        => \/ \A p \in 1..Len(nodes[i].args) : HasSED(nodes[i].args[p])
           \/ \A p \in 1..Len(nodes[i].args) : ~HasSED(nodes[i].args[p])

\* A sum of an object with an SED and a sum without SED was refused.
C6_Witness ==
    /\ last.op = "ChromaticSum"
    /\ last.err = "InvalidComposition"
    /\ \E p \in 1..Len(last.args) : nodes[last.args[p]].kind = "ChromaticSum"

\* The separable arguments of a sum, and whether two of them carry the same
\* normalization: the same SED object, the same number as _norm, or the same
\* function as _norm.
Separables(ids) == SelectSeq(ids, LAMBDA a : nodes[a].separable)

SameNormalization(a, b) ==
    IF HasSED(a) /\ HasSED(b)
    THEN The(nodes[a].SED).id = The(nodes[b].SED).id
    ELSE /\ ~HasSED(a)
         /\ ~HasSED(b)
         /\ The(nodes[a].norm).call = The(nodes[b].norm).call
         /\ IF The(nodes[a].norm).call
            THEN The(nodes[a].norm).id = The(nodes[b].norm).id
            ELSE The(nodes[a].norm).v = The(nodes[b].norm).v

\* The separable arguments that carry the normalization of argument a.
GroupOf(ids, a) == SelectSeq(Separables(ids), LAMBDA b : SameNormalization(a, b))

\* C7: a ChromaticSum is separable exactly when every argument is separable
\* and all arguments carry the same normalization; when it is not, every
\* two or more separable arguments that share a normalization are the
\* summands of one separable ChromaticSum among its children, and are not
\* children themselves.
C7_SumSeparable ==
    \A i \in Ids : nodes[i].kind = "ChromaticSum" =>
        LET args == nodes[i].args
            objlist == nodes[i].objlist
        IN  /\ nodes[i].separable <=>
                /\ \A p \in 1..Len(args) : nodes[args[p]].separable
                /\ \A p, q \in 1..Len(args) : SameNormalization(args[p], args[q])
            /\ ~nodes[i].separable =>
                \A p \in 1..Len(args) :
                    (nodes[args[p]].separable /\ Len(GroupOf(args, args[p])) >= 2)
                    => /\ \E c \in 1..Len(objlist) :
                            /\ nodes[objlist[c]].kind = "ChromaticSum"
                            /\ nodes[objlist[c]].separable
                            /\ nodes[objlist[c]].objlist = GroupOf(args, args[p])
                       /\ \A c \in 1..Len(objlist) : objlist[c] # args[p]

\* An inseparable sum of three arguments, two of which share a normalization
\* that the third, separable too, does not carry.
C7_Witness ==
    \E i \in Ids :
        /\ nodes[i].kind = "ChromaticSum"
        /\ ~nodes[i].separable
        /\ Len(nodes[i].args) = 3
        /\ \A p \in 1..3 : nodes[nodes[i].args[p]].separable
        /\ \E c \in 1..Len(nodes[i].objlist) :
                nodes[nodes[i].objlist[c]].kind = "ChromaticSum"

\* C8: the separable summands are grouped by the identity of the SED object:
\* the sum of two Chromatic objects made from the identical SED object is
\* separable, and the sum of two made from distinct SED objects of equal
\* value is not.
C8_GroupedByIdentity ==
    \A i \in Ids :
        (/\ nodes[i].kind = "ChromaticSum"
         /\ Len(nodes[i].args) = 2
         /\ nodes[i].args[1] # nodes[i].args[2]
         /\ nodes[nodes[i].args[1]].kind = "Chromatic"
         /\ nodes[nodes[i].args[2]].kind = "Chromatic")
        => LET s == The(nodes[nodes[i].args[1]].given)
               t == The(nodes[nodes[i].args[2]].given)
           IN  /\ s.id = t.id => nodes[i].separable
               /\ (s.id # t.id /\ SameValue(s, t)) => ~nodes[i].separable

\* The operands under a list of convolution arguments: an argument that is a
\* convolution stands for the operands under its own arguments, in order.
RECURSIVE Operands(_)
Operands(ids) ==
    IF ids = <<>> THEN <<>>
    ELSE IF nodes[Head(ids)].kind = "ChromaticConvolution"
    THEN Operands(nodes[Head(ids)].args) \o Operands(Tail(ids))
    ELSE <<Head(ids)>> \o Operands(Tail(ids))

\* C9: no child of a ChromaticConvolution is a ChromaticConvolution: its
\* children are the operands under its arguments, each once and in order,
\* and it is separable exactly when every child is.
C9_ConvolutionFlat ==
    \A i \in Ids : nodes[i].kind = "ChromaticConvolution" =>
        LET objlist == nodes[i].objlist
        IN  /\ \A c \in 1..Len(objlist) :
                    nodes[objlist[c]].kind # "ChromaticConvolution"
            /\ objlist = Operands(nodes[i].args)
            /\ nodes[i].separable <=>
                    \A c \in 1..Len(objlist) : nodes[objlist[c]].separable

\* An inseparable convolution with a convolution of two or more operands
\* among its arguments, followed by another argument.
C9_Witness ==
    \E i \in Ids :
        /\ nodes[i].kind = "ChromaticConvolution"
        /\ ~nodes[i].separable
        /\ Len(nodes[i].args) >= 2
        /\ nodes[nodes[i].args[1]].kind = "ChromaticConvolution"
        /\ Len(nodes[nodes[i].args[1]].objlist) >= 2
        /\ nodes[i].args[2] # nodes[i].args[1]

\* C10: a ChromaticTransformation is separable exactly when its argument is
\* separable and none of jac, offset and flux_ratio is a function of
\* wavelength; when the argument is a ChromaticTransformation the node built
\* is over the original of the argument (of its deinterpolated version when
\* the constructor reverts to it), with the composed jac, offset and flux
\* ratio, and is separable exactly when that original is separable and none
\* of the composed three is a function of wavelength.
C10_TransformationSeparable ==
    \A i \in Ids : nodes[i].kind = "ChromaticTransformation" =>
        LET child == nodes[nodes[i].args[1]]
            t == The(nodes[i].transform)
        IN  /\ nodes[i].separable <=>
                /\ child.separable
                /\ t.jac = "const"
                /\ t.offset = "const"
                /\ t.flux_ratio.type = "scalar"
            /\ child.kind = "ChromaticTransformation" =>
                /\ (child.interpolated /\ nodes[i].chromatic)
                    \/ nodes[i].original = child.original
                /\ nodes[nodes[i].original].kind # "ChromaticTransformation"
                /\ nodes[i].separable <=>
                    /\ nodes[nodes[i].original].separable
                    /\ nodes[i].jac = "const"
                    /\ nodes[i].offset = "const"
                    /\ nodes[i].flux_ratio.type = "scalar"

\* A transformation of a separable transformation by a function of
\* wavelength: the two are one node, which is not separable.
C10_Witness ==
    \E i \in Ids :
        /\ nodes[i].kind = "ChromaticTransformation"
        /\ nodes[nodes[i].args[1]].kind = "ChromaticTransformation"
        /\ nodes[nodes[i].args[1]].separable
        /\ ~nodes[i].separable

\* The knots of the SED attached to a node.
Knots(i) == IF HasSED(i) THEN The(nodes[i].SED).wave_list ELSE {}

\* C11: the wave_list of every node built from other nodes (sum, convolution,
\* transformation also when collapsed onto the original of its argument, the
\* one-argument operations, interpolated object) is the union of the
\* wave_lists of its constructor arguments and of the knots of its own SED.
C11_WaveListUnion ==
    \A i \in Ids : nodes[i].args # <<>> =>
        nodes[i].wave_list =
            UNION {nodes[nodes[i].args[p]].wave_list : p \in 1..Len(nodes[i].args)}
                \cup Knots(i)

\* A sum of two objects tabulated at different wavelengths: its wave_list
\* is larger than either of theirs.
C11_Witness ==
    \E i \in Ids :
        /\ nodes[i].kind = "ChromaticSum"
        /\ Len(nodes[i].args) = 2
        /\ nodes[nodes[i].args[1]].wave_list # {}
        /\ nodes[nodes[i].args[1]].wave_list # nodes[i].wave_list
        /\ nodes[nodes[i].args[2]].wave_list # nodes[i].wave_list

\* The objects a node holds: its objlist, its obj and its original.
Links(i) ==
    {nodes[i].objlist[p] : p \in 1..Len(nodes[i].objlist)}
        \cup ({nodes[i].obj, nodes[i].original} \ {0})

\* The node is an InterpolatedChromaticObject or holds one at some depth.
RECURSIVE HasInterpolatedLeaf(_)
HasInterpolatedLeaf(i) ==
    \/ nodes[i].kind = "InterpolatedChromaticObject"
    \/ \E c \in Links(i) : HasInterpolatedLeaf(c)

\* The interpolated flag of every node tells whether the node holds an
\* InterpolatedChromaticObject.
FlagTellsInterpolation ==
    \A i \in Ids : nodes[i].interpolated <=> HasInterpolatedLeaf(i)

\* The object that deinterpolated returns is not interpolated and holds no
\* InterpolatedChromaticObject.
DeinterpolatedIsPlain ==
    (last.op = "deinterpolated" /\ last.err = "none")
        => (~nodes[last.ret].interpolated /\ ~HasInterpolatedLeaf(last.ret))

\* deinterpolated of an object that is not interpolated is the object itself.
DeinterpolatedOfPlainIsSelf ==
    (last.op = "deinterpolated" /\ ~nodes[last.args[1]].interpolated)
        => (last.err = "none" /\ last.ret = last.args[1])

\* C12: the interpolated flag of every node is true exactly when the node
\* is or holds (through obj, original or objlist) an
\* InterpolatedChromaticObject; the object that deinterpolated returns has
\* the flag false and holds none; and deinterpolated of an object that is
\* not interpolated returns that same object.
C12_InterpolatedFlag ==
    /\ FlagTellsInterpolation
    /\ DeinterpolatedIsPlain
    /\ DeinterpolatedOfPlainIsSelf

\* The InterpolatedChromaticObjects that evaluating the node i evaluates.
RECURSIVE InterpolatedLeaves(_)
InterpolatedLeaves(i) ==
    IF nodes[i].kind = "InterpolatedChromaticObject" THEN {i}
    ELSE UNION {InterpolatedLeaves(c) : c \in Links(i)}

\* The call evaluated the node at a wavelength outside the stored images of
\* an InterpolatedChromaticObject that the node is or holds.
EvaluatedOutside ==
    /\ last.op = "evaluateAtWavelength"
    /\ \E j \in InterpolatedLeaves(last.args[1]) :
            \/ last.wave < Min(nodes[j].waves)
            \/ last.wave > Max(nodes[j].waves)

\* The call evaluated an InterpolatedChromaticObject at a wavelength from
\* the least to the greatest of its stored images.
EvaluatedInside ==
    /\ last.op = "evaluateAtWavelength"
    /\ nodes[last.args[1]].kind = "InterpolatedChromaticObject"
    /\ last.wave >= Min(nodes[last.args[1]].waves)
    /\ last.wave <= Max(nodes[last.args[1]].waves)

\* The call returned an interpolation at an index from 0 to n - 2 and a
\* fraction from 0 to 1.
Interpolated ==
    /\ last.err = "none"
    /\ last.val[3] \in 0..(Len(nodes[last.args[1]].waves) - 2)
    /\ last.val[4][2] > 0
    /\ last.val[4][1] \in 0..last.val[4][2]

\* The stored images are at two or more wavelengths, no two the same.
ProperGrid(i) ==
    /\ Len(nodes[i].waves) >= 2
    /\ \A p \in 1..(Len(nodes[i].waves) - 1) : nodes[i].waves[p] < nodes[i].waves[p + 1]

\* Outside the stored images the evaluation raises the out-of-range error.
OutsideRaises == EvaluatedOutside => last.err = "OutOfRange"

\* When every InterpolatedChromaticObject evaluated stores images at two or
\* more distinct wavelengths, the evaluation raises outside and interpolates
\* inside.
OnProperGrids ==
    (/\ last.op = "evaluateAtWavelength"
     /\ \A j \in InterpolatedLeaves(last.args[1]) : ProperGrid(j))
        => /\ OutsideRaises
           /\ EvaluatedInside => Interpolated

\* C13: evaluateAtWavelength on an InterpolatedChromaticObject, or on a node
\* that holds one, raises the out-of-range error at every wavelength below
\* the least or above the greatest wavelength of the stored images; on an
\* InterpolatedChromaticObject at every wavelength from the least to the
\* greatest, both and the wavelengths between included, it returns the
\* interpolation at an index from 0 to n - 2 and a fraction from 0 to 1.
C13_NoExtrapolation ==
    /\ OutsideRaises
    /\ EvaluatedInside => Interpolated

\* The last call applied a transformation with a jac, offset or flux_ratio
\* that is a function of wavelength to an interpolated object.
TransformedInterpolated ==
    /\ last.op = "ChromaticTransformation"
    /\ nodes[last.args[1]].interpolated
    /\ (last.jac = "func" \/ last.offset = "func" \/ last.flux_ratio.type # "scalar")

\* C14: a transformation by a function of wavelength of an interpolated
\* object is built on the deinterpolated version of the object: the node built
\* is not interpolated, holds no InterpolatedChromaticObject and is over an
\* object other than the one given (the call raises only when it would attach a
\* second SED); so the jac, offset and flux_ratio of every transformation
\* whose original is an InterpolatedChromaticObject are constants.
C14_ChromaticTransformReverts ==
    /\ TransformedInterpolated =>
            IF last.err = "none"
            THEN /\ ~nodes[Len(nodes)].interpolated
                 /\ ~HasInterpolatedLeaf(Len(nodes))
                 /\ nodes[Len(nodes)].original # last.args[1]
                 /\ ~nodes[nodes[Len(nodes)].original].interpolated
            ELSE /\ last.err = "InvalidComposition"
                 /\ last.flux_ratio.type = "SED"
                 /\ HasSED(last.args[1])
    /\ \A i \in Ids :
            (/\ nodes[i].kind = "ChromaticTransformation"
             /\ nodes[nodes[i].original].kind = "InterpolatedChromaticObject")
            => /\ nodes[i].jac = "const"
               /\ nodes[i].offset = "const"
               /\ nodes[i].flux_ratio.type = "scalar"

\* A transformation by an SED of an interpolated object was built, and
\* another transformation is over an InterpolatedChromaticObject.
C14_Witness ==
    /\ TransformedInterpolated
    /\ last.flux_ratio.type = "SED"
    /\ last.err = "none"
    /\ \E i \in Ids :
            /\ nodes[i].kind = "ChromaticTransformation"
            /\ nodes[nodes[i].original].kind = "InterpolatedChromaticObject"

\* The original of every InterpolatedChromaticObject is not interpolated.
OriginalIsPlain ==
    \A i \in Ids :
        nodes[i].kind = "InterpolatedChromaticObject"
        => ~HasInterpolatedLeaf(nodes[i].original)

\* The images of every InterpolatedChromaticObject are its original at the
\* wavelengths of its list.
ImagesOfOriginal ==
    \A i \in Ids :
        nodes[i].kind = "InterpolatedChromaticObject"
        => /\ Len(nodes[i].ims) = Len(nodes[i].waves)
           /\ \A p \in 1..Len(nodes[i].waves) :
                  nodes[i].ims[p] =
                      EvaluateAtWavelength(nodes, nodes[i].original,
                                           nodes[i].waves[p]).val

\* C15: interpolate on an interpolated object goes back to the object that
\* is not interpolated: the original of the new InterpolatedChromaticObject
\* is not interpolated, its images are that original at the new wavelengths
\* (not interpolations between the images held before), and wavelengths
\* outside the list held before do not make the call raise.
C15_InterpolateReverts ==
    /\ OriginalIsPlain
    /\ ImagesOfOriginal
    /\ (last.op = "interpolate" /\ nodes[last.args[1]].interpolated)
       => last.err \notin {"OutOfRange", "IndexError"}

\* What the constructor gave the object: all but the attributes set later.
Constructed(n) == [n EXCEPT !.added = {}]

\* The attributes set on the object i by the step.
Added(i) == nodes'[i].added \ nodes[i].added

\* C16 as stated: no call changes an object built before it, the attributes
\* the constructor gave it are as they were and no attribute is added.
C16_NoNodeMutated == [][\A i \in Ids : nodes'[i] = nodes[i]]_vars

\* C16: every call leaves the attributes the constructor gave to every object
\* built before it (separable, interpolated, SED, norm, wave_list, children and
\* the others) as they were; the attributes added are _last_n_eval, by
\* drawImage on an object that is not separable, and _hash, by hash and by
\* drawImage on a ChromaticTransformation.
C16_ConstructedKept ==
    [][\A i \in Ids :
          /\ Constructed(nodes'[i]) = Constructed(nodes[i])
          /\ nodes[i].added \subseteq nodes'[i].added
          /\ Added(i) \subseteq {"_last_n_eval", "_hash"}
          /\ "_last_n_eval" \in Added(i)
                => last'.op = "drawImage" /\ ~nodes[i].separable
          /\ "_hash" \in Added(i)
                => /\ last'.op \in {"hash", "drawImage"}
                   /\ nodes[i].kind = "ChromaticTransformation"]_vars

\* A drawImage has set both _last_n_eval and _hash on an object.
C16_Witness ==
    /\ last.op = "drawImage"
    /\ \E i \in Ids : nodes[i].added = {"_last_n_eval", "_hash"}

\* The profiles that a profile adds up, the sums within sums opened.
RECURSIVE Addends(_)
RECURSIVE AddendsOfEach(_)
Addends(term) ==
    IF term[1] = "Add" THEN AddendsOfEach(term[2]) ELSE <<term>>
AddendsOfEach(terms) ==
    IF terms = <<>> THEN <<>>
    ELSE Addends(Head(terms)) \o AddendsOfEach(Tail(terms))

\* The sequences hold the same entries the same number of times.
Count(s, x) == Cardinality({p \in 1..Len(s) : s[p] = x})
SameBag(s, t) ==
    /\ Len(s) = Len(t)
    /\ \A p \in 1..Len(s) : Count(s, s[p]) = Count(t, s[p])

\* The last call evaluated a ChromaticSum.
EvaluatedSum ==
    /\ last.op = "evaluateAtWavelength"
    /\ nodes[last.args[1]].kind = "ChromaticSum"

\* C17: evaluateAtWavelength of a ChromaticSum adds up, at every wavelength,
\* the evaluations of the arguments of its constructor, every argument once
\* whichever way the constructor grouped them; it raises when the evaluation
\* of an argument raises.
C17_EvaluationOfSum ==
    EvaluatedSum =>
        \E each \in {EvaluateEach(nodes, nodes[last.args[1]].args, last.wave)} :
            /\ last.err = each.err
            /\ last.err = "none"
                => SameBag(Addends(last.val), AddendsOfEach(each.val))

\* A ChromaticSum that holds a partial sum built by its constructor for
\* arguments of one normalization was evaluated.
C17_Witness ==
    /\ EvaluatedSum
    /\ last.err = "none"
    /\ nodes[last.args[1]].objlist # nodes[last.args[1]].args
    /\ Len(Addends(last.val)) = MaxArgs

\* The sequences of a sequence one after the other.
RECURSIVE Flat(_)
Flat(ss) == IF ss = <<>> THEN <<>> ELSE Head(ss) \o Flat(Tail(ss))

\* Every choice of one summand from each of the sums, in the order of the
\* sums.
RECURSIVE Choices(_)
Choices(sums) ==
    IF sums = <<>> THEN <<<<>>>>
    ELSE LET With(rest) ==
                Flat([p \in 1..Len(nodes[Head(sums)].objlist) |->
                        [q \in 1..Len(rest) |->
                            <<nodes[Head(sums)].objlist[p]>> \o rest[q]]])
         IN  With(Choices(Tail(sums)))

IsSum(c) == nodes[c].kind = "ChromaticSum"
SumsOf(i) == SelectSeq(nodes[i].objlist, IsSum)
NotSum(c) == ~IsSum(c)
OthersOf(i) == SelectSeq(nodes[i].objlist, NotSum)

\* The last call drew a convolution that is not separable and has one
\* ChromaticSum or more among its convolutants.
DrewOverSums ==
    /\ last.op = "drawImage"
    /\ nodes[last.args[1]].kind = "ChromaticConvolution"
    /\ ~nodes[last.args[1]].separable
    /\ HasSED(last.args[1])
    /\ SumsOf(last.args[1]) # <<>>

\* drawImage, on an image of its own, of the convolution i with each
\* ChromaticSum replaced by the summand chosen.
DrawnWith(i, choice) ==
    LET With(tmpobj) ==
            IF tmpobj.err # "none" THEN Raise(tmpobj.err, <<>>)
            ELSE DrawImage(tmpobj.heap, Len(tmpobj.heap), last.integrator, FALSE)
    IN  With(ChromaticConvolution(nodes, OthersOf(i) \o choice))

\* What the image given held before the call that is still in it.
Kept == IF last.add_to_image THEN Prior ELSE <<>>

\* C18: drawImage of a convolution that is not separable and has
\* ChromaticSums among its convolutants draws, for every choice of one
\* summand from each ChromaticSum, the convolution with each ChromaticSum
\* replaced by the summand chosen, every choice once, and the image is the
\* sum of these; it raises when one of them raises.
C18_DistributedOverSums ==
    DrewOverSums =>
        LET choices == Choices(SumsOf(last.args[1]))
            With(each) ==
                /\ last.err = "none" <=>
                        \A c \in 1..Len(each) : each[c].err = "none"
                /\ last.err = "none" =>
                        SameBag(last.image,
                                Kept \o Flat([c \in 1..Len(each) |-> each[c].terms]))
        IN  With([c \in 1..Len(choices) |-> DrawnWith(last.args[1], choices[c])])

\* A convolution of a sum of two different galaxies with a PSF was drawn
\* on an image that held something.
C18_Witness ==
    /\ DrewOverSums
    /\ last.err = "none"
    /\ ~last.add_to_image
    /\ \E a, b \in 1..Len(Choices(SumsOf(last.args[1]))) :
            Choices(SumsOf(last.args[1]))[a] # Choices(SumsOf(last.args[1]))[b]
    /\ Len(last.image) = Len(Choices(SumsOf(last.args[1])))

\* The last call drew a convolution of one separable object with an SED and
\* one object that is not separable, neither a ChromaticSum.
DrewAtomicPair ==
    /\ last.op = "drawImage"
    /\ nodes[last.args[1]].kind = "ChromaticConvolution"
    /\ Len(nodes[last.args[1]].objlist) = 2
    /\ SumsOf(last.args[1]) = <<>>
    /\ \E p \in 1..2 :
            /\ nodes[nodes[last.args[1]].objlist[p]].separable
            /\ HasSED(nodes[last.args[1]].objlist[p])
            /\ ~nodes[nodes[last.args[1]].objlist[3 - p]].separable

\* The separable and the other convolutant of the convolution i.
SeparableOf(i) ==
    IF nodes[nodes[i].objlist[1]].separable
    THEN nodes[i].objlist[1] ELSE nodes[i].objlist[2]
InseparableOf(i) ==
    IF nodes[nodes[i].objlist[1]].separable
    THEN nodes[i].objlist[2] ELSE nodes[i].objlist[1]

\* An interpolation that is at a stored image is the stored image.
AtStored(term) ==
    IF term[1] # "interp" THEN term
    ELSE IF term[4][1] = 0 THEN nodes[term[2]].ims[term[3] + 1]
    ELSE IF term[4][1] = term[4][2] THEN nodes[term[2]].ims[term[3] + 2]
    ELSE term

\* The integrand of the effective profile that makes it the direct
\* quadrature: at each wavelength of the quadrature of the convolution, the
\* profile that the quadrature evaluates for the object t, times the SED of
\* the separable object s at the wavelength.
Integrand(i, s, t) ==
    [k \in 1..Len(Samples(nodes[i])) |->
        <<"Transformation", "const", "const", SEDRatio(The(nodes[s].SED)),
          Samples(nodes[i])[k],
          AtStored(EvaluateAtWavelength(nodes, t, Samples(nodes[i])[k]).val)>>]

\* The effective profile with the interpolations at stored images as the
\* stored images.
EffectiveIntegrand(profiles) ==
    [k \in 1..Len(profiles) |->
        IF profiles[k][1] = "Transformation"
        THEN [profiles[k] EXCEPT ![6] = AtStored(@)]
        ELSE profiles[k]]

\* The image of the effective profile is the image of the direct quadrature
\* of the convolution i: the spatial factor of the separable object
\* convolved with the integral, by the same rule at the same wavelengths, of
\* the profiles of the other object times the SED.
EffectiveIsDirect(i) ==
    \E direct \in {BaseDrawImage(nodes, i, last.integrator, last.add_to_image)} :
        /\ last.err = direct.err
        /\ last.err = "none" =>
            /\ Len(last.image) = Len(Kept) + 1
            /\ \E image \in {last.image[Len(last.image)]} :
                /\ image[1] = "Convolve"
                /\ Len(image[2]) = 2
                /\ image[2][1] =
                      <<"spatial",
                        EvaluateAtWavelength(nodes, SeparableOf(i),
                                             EffectiveWavelength).val>>
                /\ image[2][2][1] = "InterpolatedImage"
                /\ Len(image[2][2][2]) = 1
                /\ \E effective \in {image[2][2][2][1]} :
                    /\ effective[1] = "integrate"
                    /\ effective[2] = direct.terms[1][2]
                    /\ effective[3] = direct.terms[1][3]
                    /\ EffectiveIntegrand(effective[4]) =
                          Integrand(i, SeparableOf(i), InseparableOf(i))

\* C19: drawImage of a convolution of one separable object and one object
\* that is not separable, neither a ChromaticSum, gives through the effective
\* profile the image of the direct quadrature of the convolution at the same
\* wavelengths by the same rule, and raises when the quadrature raises.
C19_EffectiveProfile == DrewAtomicPair => EffectiveIsDirect(last.args[1])

\* The same of the convolutions that are not interpolated.
EffectiveIsDirectWhenPlain ==
    (DrewAtomicPair /\ ~nodes[last.args[1]].interpolated)
        => EffectiveIsDirect(last.args[1])

\* A convolution of a galaxy and a PSF that is not interpolated was drawn.
DrewPlainPair ==
    /\ DrewAtomicPair
    /\ ~nodes[last.args[1]].interpolated
    /\ last.err = "none"

\* The image integrated over wavelength of the object i: of a ChromaticSum
\* the images of its summands, of a convolution that is not separable over
\* ChromaticSums the images of the convolutions with a summand for each,
\* of another object what its drawImage draws on an image of its own.
RECURSIVE Integrated(_)
Integrated(i) ==
    IF nodes[i].kind = "ChromaticSum"
    THEN Flat([p \in 1..Len(nodes[i].objlist) |-> Integrated(nodes[i].objlist[p])])
    ELSE IF /\ nodes[i].kind = "ChromaticConvolution"
            /\ ~nodes[i].separable
            /\ SumsOf(i) # <<>>
    THEN LET choices == Choices(SumsOf(i))
         IN  Flat([c \in 1..Len(choices) |-> DrawnWith(i, choices[c]).terms])
    ELSE DrawImage(nodes, i, "trapezoidal", FALSE).terms

\* The last call drew an object onto the image given.
DrewOnto ==
    /\ last.op = "drawImage"
    /\ last.err = "none"

HashTag(kind) ==
    IF kind \in {"ChromaticObject", "ChromaticFourierSqrtProfile"}
    THEN "galsim.ChromaticObject"
    ELSE kind

RECURSIVE SameHash(_, _, _)
\* hash(a) == hash(b), two hashes being equal when the tuples hashed are.
\* The GSObject of a leaf is equal to itself only.
SameHash(h, a, b) ==
    LET x == h[a]
        y == h[b]
    IN  /\ HashTag(x.kind) = HashTag(y.kind)
        /\ CASE HashTag(x.kind) = "galsim.ChromaticObject" ->
                    IF x.obj = 0 \/ y.obj = 0 THEN a = b
                    ELSE SameHash(h, x.obj, y.obj)
             [] x.kind \in {"ChromaticDeconvolution", "ChromaticAutoConvolution",
                            "ChromaticAutoCorrelation"} ->
                    SameHash(h, x.obj, y.obj)
             [] x.kind = "InterpolatedChromaticObject" ->
                    SameHash(h, x.original, y.original) /\ x.waves = y.waves
             [] x.kind = "ChromaticTransformation" ->
                    /\ SameHash(h, x.original, y.original)
                    /\ x.flux_ratio = y.flux_ratio
                    /\ x.jac = y.jac
                    /\ x.offset = y.offset
             [] x.kind \in {"ChromaticSum", "ChromaticConvolution"} ->
                    /\ Len(x.objlist) = Len(y.objlist)
                    /\ \A p \in 1..Len(x.objlist) :
                            SameHash(h, x.objlist[p], y.objlist[p])
             [] OTHER -> a = b

RECURSIVE Eq(_, _, _)
\* a == b by the __eq__ of a's class; a ChromaticFourierSqrtProfile defines
\* none and uses that of ChromaticObject, which looks at obj only.
Eq(h, a, b) ==
    LET self == h[a]
        other == h[b]
        HasObj(x) == x.kind \in {"ChromaticObject", "ChromaticFourierSqrtProfile",
                                 "ChromaticDeconvolution", "ChromaticAutoConvolution",
                                 "ChromaticAutoCorrelation", "Chromatic"}
    IN  CASE self.kind \in {"ChromaticObject", "ChromaticFourierSqrtProfile"} ->
                /\ HasObj(other)
                /\ IF self.obj = 0 \/ other.obj = 0 THEN a = b
                   ELSE Eq(h, self.obj, other.obj)
          [] self.kind \in {"ChromaticDeconvolution", "ChromaticAutoConvolution",
                            "ChromaticAutoCorrelation"} ->
                /\ other.kind = self.kind
                /\ Eq(h, self.obj, other.obj)
          [] self.kind = "InterpolatedChromaticObject" ->
                /\ other.kind = self.kind
                /\ Eq(h, self.original, other.original)
                /\ self.waves = other.waves
          [] self.kind = "ChromaticTransformation" ->
                /\ other.kind = self.kind
                /\ Eq(h, self.original, other.original)
                /\ self.jac = other.jac
                /\ self.offset = other.offset
                /\ self.flux_ratio = other.flux_ratio
          [] self.kind \in {"ChromaticSum", "ChromaticConvolution"} ->
                /\ other.kind = self.kind
                /\ Len(self.objlist) = Len(other.objlist)
                /\ \A p \in 1..Len(self.objlist) :
                        Eq(h, self.objlist[p], other.objlist[p])
          [] OTHER -> a = b

\* Programs that wrap profiles in the one-argument classes and hash them.
NextKeys ==
    \/ NewChromaticObjectGS(MaxDeep)
    \/ NewChromaticPSF(MaxDeep)
    \/ NewChromaticObject(MaxDeep)
    \/ NewDeconvolution(MaxDeep)
    \/ NewFourierSqrt(MaxDeep)
    \/ CallHash

SpecKeys == Init /\ [][NextKeys]_vars

\* Two objects that a cache takes for the same key.
SameCacheKey(a, b) == SameHash(nodes, a, b) /\ Eq(nodes, a, b)

\* C21: two cache keys that compare equal with equal hash are objects that
\* evaluate to the same profile at every wavelength, so that a cache never
\* returns for one object what was computed for another.
C21_KeysDenoteProfiles ==
    \A a \in Ids, b \in Ids :
        SameCacheKey(a, b) =>
            \A wave \in 1..MaxWave :
                EvaluateAtWavelength(nodes, a, wave) = EvaluateAtWavelength(nodes, b, wave)


\* C22: drawImage on a node with an SED, separable or not, called with a
\* quadrature rule that is neither 'trapezoidal' nor 'midpoint' raises the
\* unknown-rule error and returns no image.
C22_UnknownRuleRaises ==
    (/\ last.op = "drawImage"
     /\ HasSED(last.args[1])
     /\ last.integrator \notin {"trapezoidal", "midpoint"})
        => (last.err = "UnknownQuadratureRule" /\ last.image = <<>>)


(***************************************************************************)
(* The search for the fiducial profile.  Wavelengths are counted in half   *)
(* units here, so that the midpoint of a bandpass is one of them; a        *)
(* spectrum gives the value of the user's SED at each of them, zero where  *)
(* the source is dark.                                                     *)
(***************************************************************************)
HalfWaves == 2..(2 * MaxWave)

Spectra == [HalfWaves -> 0..1]

\* The bandpasses: blue_limit < red_limit, an effective wavelength between
\* them, and no knots, the two limits, or every whole wavelength between.
Bandpasses ==
    UNION {{[blue_limit |-> 2 * b, red_limit |-> 2 * r,
             effective_wavelength |-> e, wave_list |-> l] :
                e \in (2 * b)..(2 * r),
                l \in {{}, {2 * b, 2 * r}, {2 * w : w \in b..r}}} :
            <<b, r>> \in {q \in (1..MaxWave) \X (1..MaxWave) : q[1] < q[2]}}

\* self.SED(wave): the user's spectrum times the factor the constructor put
\* on it.
SEDAt(self, spectrum, wave) == spectrum[wave] * The(self.SED).k[1]

\* evaluateAtWavelength(wave).flux of a Chromatic: SED(wave) times the flux
\* of obj, which __init__ made 1.
FluxAt(self, spectrum, wave) == SEDAt(self, spectrum, wave) * 1

\* |w - bpwave|
Distance(w, bpwave) == IF w >= bpwave THEN w - bpwave ELSE bpwave - w

\* _fiducial_profile returning any candidate with flux, near or far.
FiducialProfileAny(self, spectrum, bandpass) ==
    LET bpwave == bandpass.effective_wavelength
        candidate_waves ==
            {(bandpass.blue_limit + bandpass.red_limit) \div 2}
                \cup bandpass.wave_list \cup {2 * w : w \in self.wave_list}
        lit == {w \in candidate_waves : FluxAt(self, spectrum, w) # 0}
    IN  IF FluxAt(self, spectrum, bpwave) # 0
        THEN {[err |-> "none", wave |-> bpwave]}
        ELSE IF lit = {} THEN {[err |-> "NoFiducialWavelength", wave |-> 0]}
        ELSE {[err |-> "none", wave |-> w] : w \in lit}

\* _fiducial_profile(bandpass): the wavelengths it may return, or the error.
\* The candidates are tried in the order of argsort on their distances to
\* the effective wavelength; of two at the same distance either may come
\* first.
FiducialProfile(self, spectrum, bandpass) ==
    LET bpwave == bandpass.effective_wavelength
        candidate_waves ==
            {(bandpass.blue_limit + bandpass.red_limit) \div 2}
                \cup bandpass.wave_list \cup {2 * w : w \in self.wave_list}
        lit == {w \in candidate_waves : FluxAt(self, spectrum, w) # 0}
    IN  IF FluxAt(self, spectrum, bpwave) # 0
        THEN {[err |-> "none", wave |-> bpwave]}
        ELSE IF lit = {} THEN {[err |-> "NoFiducialWavelength", wave |-> 0]}
        ELSE {[err |-> "none", wave |-> w] :
                w \in {v \in lit : \A u \in lit :
                            Distance(v, bpwave) <= Distance(u, bpwave)}}

\* obj._fiducial_profile(bandpass), obj a Chromatic whose SED has the given
\* spectrum.
CallFiducialProfile ==
    \E i \in Ids, spectrum \in Spectra, bandpass \in Bandpasses :
        /\ Running
        /\ \E r \in FiducialProfile(nodes[i], spectrum, bandpass) :
            /\ nodes' = nodes
            /\ last' = [Call("_fiducial_profile", <<i>>) EXCEPT
                            !.err = r.err, !.wave = r.wave,
                            !.log = <<"fiducial">>,
                            !.val = [spectrum |-> spectrum, bandpass |-> bandpass]]

\* The most objects built by the programs that search fiducial profiles.
MaxProbed == 2

NextFiducial ==
    \/ NewChromaticKnots(MaxProbed)
    \/ CallFiducialProfile

SpecFiducial == Init /\ [][NextFiducial]_vars

\* The wavelengths _fiducial_profile looks at after the effective one: the
\* midpoint of the bandpass, its knots and those of the object.
Candidates ==
    {(last.val.bandpass.blue_limit + last.val.bandpass.red_limit) \div 2}
        \cup last.val.bandpass.wave_list
        \cup {2 * w : w \in Drawn.wave_list}

\* The object has flux at the wavelength.
HasFlux(w) == FluxAt(Drawn, last.val.spectrum, w) # 0

\* C23: the fiducial-profile search returns the effective wavelength of the
\* bandpass when the object has flux there; otherwise a candidate with flux
\* than which no candidate with flux is closer to the effective wavelength;
\* it raises exactly when neither the effective wavelength nor any candidate
\* has flux, and the SED is nonzero at the wavelength returned.
C23_FiducialProfile ==
    last.op = "_fiducial_profile" =>
        LET bpwave == last.val.bandpass.effective_wavelength
        IN  /\ HasFlux(bpwave) => (last.err = "none" /\ last.wave = bpwave)
            /\ (~HasFlux(bpwave) /\ last.err = "none") =>
                    /\ last.wave \in Candidates
                    /\ HasFlux(last.wave)
                    /\ \A w \in Candidates :
                            HasFlux(w) =>
                                Distance(last.wave, bpwave) <= Distance(w, bpwave)
            /\ last.err = "NoFiducialWavelength" <=>
                    (~HasFlux(bpwave) /\ \A w \in Candidates : ~HasFlux(w))
            /\ last.err \in {"none", "NoFiducialWavelength"}
            /\ last.err = "none" => SEDAt(Drawn, last.val.spectrum, last.wave) # 0

\* The object is dark at the effective wavelength, and of two candidates
\* with flux the search returned the nearer, which is not the midpoint.
C23_Witness ==
    /\ last.op = "_fiducial_profile"
    /\ last.err = "none"
    /\ ~HasFlux(last.val.bandpass.effective_wavelength)
    /\ \E w \in Candidates :
            /\ HasFlux(w)
            /\ Distance(w, last.val.bandpass.effective_wavelength)
                    > Distance(last.wave, last.val.bandpass.effective_wavelength)
    /\ last.wave # (last.val.bandpass.blue_limit + last.val.bandpass.red_limit) \div 2


\* The profile integrated over wavelength is a transformation of the sum
\* of the stored images of the interpolated object t, weighted.
FromStoredImages(effective, t) ==
    /\ effective[1] = "Transformation"
    /\ effective[6][1] = "integrate"
    /\ \A k \in 1..Len(effective[6][4]) :
            /\ effective[6][4][k][1] = "interp"
            /\ effective[6][4][k][2] = t

\* C24: drawImage of a convolution of a separable object with an SED and an
\* interpolated object that is not separable integrates the effective
\* profile from the stored images of the interpolated object; the
\* interpolation is not reverted.
C24_InterpolationKept ==
    (/\ DrewAtomicPair
     /\ nodes[InseparableOf(last.args[1])].kind = "InterpolatedChromaticObject"
     /\ last.err = "none")
        => \E image \in {last.image[Len(last.image)]} :
                /\ image[1] = "Convolve"
                /\ image[2][2][1] = "InterpolatedImage"
                /\ FromStoredImages(image[2][2][2][1], InseparableOf(last.args[1]))


(***************************************************************************)
(* The weights of the stored images of an InterpolatedChromaticObject.     *)
(* waves are the wavelengths of the stored images, stepK_vals and          *)
(* maxK_vals their frequency bounds, wave_list the combined knots of the   *)
(* object and the bandpass, bandpass the throughput at each wavelength.    *)
(* Weights and bounds are rationals <<n, d>>.                              *)
(***************************************************************************)
\* _linearInterp(list, frac, lower_idx), lower_idx counted from 0.
LinearInterp(list, frac, lower_idx) ==
    RAdd(RMul(Rat(frac[1], frac[2]), <<list[lower_idx + 2], 1>>),
         RMul(Rat(frac[2] - frac[1], frac[2]), <<list[lower_idx + 1], 1>>))

\* _imageAtWavelength(wave): the weights of the stored images in the image
\* returned, and the stepk and maxk returned with it.
ImageAtWavelengthBounds(waves, stepK_vals, maxK_vals, wave) ==
    IF wave < Min(waves) \/ wave > Max(waves)
    THEN [err |-> "OutOfRange", weight_fac |-> <<>>, stepk |-> <<0, 1>>,
          maxk |-> <<0, 1>>]
    ELSE LET found == FindWave(waves, wave)
         IN  [err |-> "none",
              weight_fac |->
                [j \in 1..Len(waves) |->
                    IF j = found.lower_idx + 1
                    THEN Rat(found.frac[2] - found.frac[1], found.frac[2])
                    ELSE IF j = found.lower_idx + 2
                    THEN Rat(found.frac[1], found.frac[2])
                    ELSE <<0, 1>>],
              stepk |-> LinearInterp(stepK_vals, found.frac, found.lower_idx),
              maxk |-> LinearInterp(maxK_vals, found.frac, found.lower_idx)]

\* dw[idx] of _get_interp_image, idx counted from 1.
Dw(wave_list, idx) ==
    IF idx = 1 THEN <<wave_list[2] - wave_list[1], 1>>
    ELSE IF idx = Len(wave_list)
    THEN <<wave_list[idx] - wave_list[idx - 1], 1>>
    ELSE Rat(wave_list[idx + 1] - wave_list[idx - 1], 2)

RECURSIVE WeightFac(_, _, _, _, _, _)
\* weight_fac[j] of _get_interp_image after the first idx wavelengths of
\* wave_list, j counted from 1.
WeightFac(waves, wave_list, integrator, bandpass, j, idx) ==
    IF idx = 0 THEN <<0, 1>>
    ELSE LET found == FindWave(waves, wave_list[idx])
             b == RMul(<<bandpass[wave_list[idx]], 1>>, Dw(wave_list, idx))
             part == IF j = found.lower_idx + 1
                     THEN Rat(found.frac[2] - found.frac[1], found.frac[2])
                     ELSE IF j = found.lower_idx + 2
                     THEN Rat(found.frac[1], found.frac[2])
                     ELSE <<0, 1>>
         IN  RAdd(WeightFac(waves, wave_list, integrator, bandpass, j, idx - 1),
                  RMul(RMul(part, b),
                       IF (idx > 1 /\ idx < Len(wave_list)) \/ integrator = "midpoint"
                       THEN <<1, 1>> ELSE <<1, 2>>))

\* _get_interp_image after the fiducial profile: the weights of the stored
\* images in the integral, and the stepk and maxk of the profile returned.
\* np.min of an empty array and wave_list[1] of an array of one raise.
InterpImage(waves, stepK_vals, maxK_vals, wave_list, integrator, bandpass) ==
    LET Failed(e) == [err |-> e, weight_fac |-> <<>>, stepk |-> <<0, 1>>,
                      maxk |-> <<0, 1>>]
        weight_fac ==
            [j \in 1..Len(waves) |->
                WeightFac(waves, wave_list, integrator, bandpass, j, Len(wave_list))]
        used == {j \in 1..Len(waves) : weight_fac[j][1] > 0}
    IN  IF wave_list = <<>> THEN Failed("ValueError")
        ELSE IF Min(wave_list) < Min(waves) \/ Max(wave_list) > Max(waves)
        THEN Failed("OutOfRange")
        ELSE IF Len(wave_list) < 2 THEN Failed("IndexError")
        ELSE IF used = {} THEN Failed("ValueError")
        ELSE [err |-> "none",
              weight_fac |-> weight_fac,
              stepk |-> <<CHOOSE x \in {stepK_vals[j] : j \in used} :
                            \A j \in used : x <= stepK_vals[j], 1>>,
              maxk |-> <<CHOOSE x \in {maxK_vals[j] : j \in used} :
                            \A j \in used : x >= maxK_vals[j], 1>>]

RECURSIVE SlowWeight(_, _, _, _, _, _)
\* The weight of the stored image j in the integral that
\* ChromaticObject.drawImage makes of the first idx samples: each sample is
\* the interpolation of _imageAtWavelength times the throughput, and
\* np.trapz gives it half the width of each interval it bounds; the midpoint
\* rule gives it dw.
SlowWeight(waves, wave_list, integrator, bandpass, j, idx) ==
    IF idx = 0 THEN <<0, 1>>
    ELSE LET at == ImageAtWavelengthBounds(waves, waves, waves, wave_list[idx])
             below == IF idx > 1 THEN wave_list[idx] - wave_list[idx - 1] ELSE 0
             above == IF idx < Len(wave_list)
                      THEN wave_list[idx + 1] - wave_list[idx] ELSE 0
             width == IF integrator = "midpoint" THEN Dw(wave_list, idx)
                      ELSE Rat(below + above, 2)
         IN  RAdd(SlowWeight(waves, wave_list, integrator, bandpass, j, idx - 1),
                  RMul(RMul(at.weight_fac[j], <<bandpass[wave_list[idx]], 1>>),
                       width))

\* The integration of ChromaticObject.drawImage with evaluations by
\* interpolation: a SampleIntegrator over wave_list when it has wavelengths,
\* otherwise a ContinuousIntegrator between the limits of the bandpass,
\* whose weights are not followed here.
SlowIntegral(waves, wave_list, integrator, bandpass) ==
    IF wave_list = <<>>
    THEN [err |-> "none", continuous |-> TRUE, weight_fac |-> <<>>]
    ELSE IF Min(wave_list) < Min(waves) \/ Max(wave_list) > Max(waves)
    THEN [err |-> "OutOfRange", continuous |-> FALSE, weight_fac |-> <<>>]
    ELSE IF Len(wave_list) < 2 /\ integrator = "midpoint"
    THEN [err |-> "IndexError", continuous |-> FALSE, weight_fac |-> <<>>]
    ELSE [err |-> "none", continuous |-> FALSE,
          weight_fac |->
            [j \in 1..Len(waves) |->
                SlowWeight(waves, wave_list, integrator, bandpass, j,
                           Len(wave_list))]]

\* The wavelengths of the stored images: two or more of 1..MaxWave, sorted.
Grids ==
    {Ascending(S) : S \in {T \in SUBSET (1..MaxWave) :
                                Cardinality(T) >= 2 /\ Cardinality(T) <= MaxGrid}}

\* The combined knots of object and bandpass: none, one or more, sorted.
KnotLists == {Ascending(S) : S \in SUBSET (1..MaxWave)}

\* The throughput of the bandpass at each wavelength.
Throughputs == [1..MaxWave -> 0..1]

\* The stepK or maxK of each stored image.
KBounds(waves) == [1..Len(waves) -> 1..2]

\* obj._get_interp_image(bandpass, integrator=integrator) on an interpolated
\* object; val holds the inputs and ret what is returned.
CallGetInterpImage ==
    \E waves \in Grids, wave_list \in KnotLists, bandpass \in Throughputs,
       integrator \in {"trapezoidal", "midpoint"} :
        \E stepK_vals \in KBounds(waves), maxK_vals \in KBounds(waves) :
            /\ Running
            /\ \E r \in {InterpImage(waves, stepK_vals, maxK_vals, wave_list,
                                     integrator, bandpass)} :
                /\ nodes' = nodes
                /\ last' = [Call("_get_interp_image", <<>>) EXCEPT
                                !.integrator = integrator,
                                !.err = r.err,
                                !.log = <<"fiducial", "setup", "interp_image">>,
                                !.ret = r,
                                !.val = [waves |-> waves, wave_list |-> wave_list,
                                         bandpass |-> bandpass,
                                         stepK_vals |-> stepK_vals,
                                         maxK_vals |-> maxK_vals]]

\* obj._imageAtWavelength(wave) on an interpolated object.
CallImageAtWavelength ==
    \E waves \in Grids, wave \in 0..(MaxWave + 1) :
        \E stepK_vals \in KBounds(waves), maxK_vals \in KBounds(waves) :
            /\ Running
            /\ \E r \in {ImageAtWavelengthBounds(waves, stepK_vals, maxK_vals, wave)} :
                /\ nodes' = nodes
                /\ last' = [Call("_imageAtWavelength", <<>>) EXCEPT
                                !.wave = wave,
                                !.err = r.err,
                                !.log = <<"interp_image">>,
                                !.ret = r,
                                !.val = [waves |-> waves, stepK_vals |-> stepK_vals,
                                         maxK_vals |-> maxK_vals]]

NextInterpImage ==
    \/ CallGetInterpImage
    \/ CallImageAtWavelength

SpecInterpImage == Init /\ [][NextInterpImage]_vars

\* What ChromaticObject.drawImage integrates from the inputs of the last
\* call, with evaluations by interpolation.
Slow ==
    SlowIntegral(last.val.waves, last.val.wave_list, last.integrator,
                 last.val.bandpass)

\* C25: whenever the integration of ChromaticObject.drawImage accepts the
\* knots of object and bandpass (none, one, or more), _get_interp_image
\* returns, and with the same weight on every stored image: each sample's
\* weight of the rule, shared between the two stored images around it.
C25_SameWeightedSum ==
    (last.op = "_get_interp_image" /\ Slow.err = "none")
        => /\ last.err = "none"
           /\ last.ret.weight_fac = Slow.weight_fac

\* The same for two or more knots at which the bandpass lets light through.
SameWeightedSumOverKnots ==
    (/\ last.op = "_get_interp_image"
     /\ Slow.err = "none"
     /\ Len(last.val.wave_list) >= 2
     /\ \E j \in 1..Len(Slow.weight_fac) : Slow.weight_fac[j][1] > 0)
        => /\ last.err = "none"
           /\ last.ret.weight_fac = Slow.weight_fac

\* The stored images with weight in what the last call returned.
Contributing ==
    {j \in 1..Len(last.ret.weight_fac) : last.ret.weight_fac[j][1] > 0}

\* C26: the stepK of what _imageAtWavelength and _get_interp_image return is
\* the least stepK, and the maxK the greatest maxK, of the stored images that
\* contribute with nonzero weight.
C26_ConservativeBounds ==
    (last.op \in {"_imageAtWavelength", "_get_interp_image"} /\ last.err = "none")
        => /\ \A j \in Contributing :
                /\ last.ret.stepk[1] <= last.val.stepK_vals[j] * last.ret.stepk[2]
                /\ last.ret.maxk[1] >= last.val.maxK_vals[j] * last.ret.maxk[2]
           /\ \E j \in Contributing : last.ret.stepk = <<last.val.stepK_vals[j], 1>>
           /\ \E j \in Contributing : last.ret.maxk = <<last.val.maxK_vals[j], 1>>

\* The same of _get_interp_image alone.
ConservativeBoundsOfIntegral ==
    last.op = "_get_interp_image" => C26_ConservativeBounds


RECURSIVE RulesOf(_)
\* The quadrature rules of the integrations over wavelength in a term of an
\* image.
RulesOf(term) ==
    CASE term[1] = "integrate" -> {term[2]}
      [] term[1] \in {"Convolve", "InterpolatedImage"} ->
            UNION {RulesOf(term[2][k]) : k \in 1..Len(term[2])}
      [] term[1] = "Transformation" -> RulesOf(term[6])
      [] OTHER -> {}

\* C27: every integration over wavelength that a drawImage call makes uses
\* the quadrature rule given to the call: those of the addends of a
\* ChromaticSum that are not separable, and those of the effective profiles
\* of a ChromaticConvolution.
C27_RuleOfTheCall ==
    (last.op = "drawImage" /\ last.err = "none")
        => \A k \in 1..Len(last.image) : RulesOf(last.image[k]) \subseteq {last.integrator}


RECURSIVE SumsIn(_, _)
RECURSIVE SumsInEach(_, _)
\* The number of ChromaticSums in the expressions of the objects ids.
SumsInEach(h, ids) ==
    IF ids = <<>> THEN 0
    ELSE SumsIn(h, Head(ids)) + SumsInEach(h, Tail(ids))

\* The number of ChromaticSums in the expression of the object i.
SumsIn(h, i) ==
    CASE h[i].kind = "ChromaticSum" -> 1 + SumsInEach(h, h[i].objlist)
      [] h[i].kind = "ChromaticConvolution" -> SumsInEach(h, h[i].objlist)
      [] h[i].kind \in {"ChromaticTransformation", "InterpolatedChromaticObject"} ->
            SumsIn(h, h[i].original)
      [] OTHER -> IF h[i].obj # 0 THEN SumsIn(h, h[i].obj) ELSE 0

\* Every convolution that drawImage of the convolution i builds over the
\* summands of a ChromaticSum among its convolutants has fewer ChromaticSums
\* in it than i.
DistributedAreSmaller(i) ==
    \A p \in 1..Len(nodes[i].objlist) :
        nodes[nodes[i].objlist[p]].kind = "ChromaticSum" =>
            \A q \in 1..Len(nodes[nodes[i].objlist[p]].objlist) :
                \E tmpobj \in {Built(ChromaticConvolution(nodes,
                                    Append(RemoveAt(nodes[i].objlist, p),
                                           nodes[nodes[i].objlist[p]].objlist[q])))} :
                    tmpobj.err = "none" =>
                        SumsIn(tmpobj.heap, tmpobj.id) < SumsIn(nodes, i)

\* C28: drawImage on a ChromaticConvolution terminates: the convolutions it
\* draws over the summands of a ChromaticSum have fewer ChromaticSums than
\* itself, once no convolutant is a ChromaticSum none is a
\* ChromaticConvolution either, and the effective profile is then computed
\* once, without drawing the convolution again.
C28_DrawTerminates ==
    /\ \A i \in Ids :
            nodes[i].kind = "ChromaticConvolution" =>
                /\ DistributedAreSmaller(i)
                /\ \A p \in 1..Len(nodes[i].objlist) :
                        nodes[nodes[i].objlist[p]].kind # "ChromaticConvolution"
    /\ (/\ last.op = "drawImage"
        /\ Drawn.kind = "ChromaticConvolution"
        /\ ~Drawn.separable
        /\ SumsOf(last.args[1]) = <<>>
        /\ last.err = "none")
            => Count(last.log, "effective_prof_cache") = 1

\* A convolution of a ChromaticSum and of a convolution, which the
\* constructor unfolded, was drawn: once for each summand.
C28_Witness ==
    /\ last.op = "drawImage"
    /\ last.err = "none"
    /\ Drawn.kind = "ChromaticConvolution"
    /\ SumsOf(last.args[1]) # <<>>
    /\ \E p \in 1..Len(Drawn.args) : nodes[Drawn.args[p]].kind = "ChromaticConvolution"
    /\ Count(last.log, "effective_prof_cache") = 2


\* drawImage of the convolution i, when it has an SED, reaches the
\* collapsing of its inseparable convolutants: it is not separable and no
\* convolutant is a ChromaticSum.
ReachesAtomic(i) ==
    /\ nodes[i].kind = "ChromaticConvolution"
    /\ HasSED(i)
    /\ ~nodes[i].separable
    /\ SumsOf(i) = <<>>

\* C29: whenever drawImage of a convolution collapses its inseparable
\* convolutants into the object of the effective profile, there is such a
\* convolutant, and the object is built, is not separable and has an SED, so
\* that drawing it never raises the missing-SED error.
C29_EffectiveNode ==
    /\ \A i \in Ids :
            ReachesAtomic(i) =>
                /\ \E p \in 1..Len(nodes[i].objlist) :
                        ~nodes[nodes[i].objlist[p]].separable
                /\ \E insep_obj \in {InsepObj(nodes, i)} :
                        /\ insep_obj.err = "none"
                        /\ ~insep_obj.heap[insep_obj.id].separable
                        /\ ~IsNone(insep_obj.heap[insep_obj.id].SED)
    /\ (/\ last.op = "drawImage"
        /\ Drawn.kind = "ChromaticConvolution"
        /\ HasSED(last.args[1]))
            => last.err \notin {"MissingSED", "IndexError"}

\* A convolution of a separable object with an SED and an object that is
\* not separable was drawn through its effective profile, whose object got
\* its SED from the separable one.
C29_Witness ==
    /\ last.op = "drawImage"
    /\ last.err = "none"
    /\ ReachesAtomic(last.args[1])
    /\ \E p \in 1..Len(Drawn.objlist) :
            nodes[Drawn.objlist[p]].separable /\ HasSED(Drawn.objlist[p])
    /\ \E p \in 1..Len(Drawn.objlist) :
            ~nodes[Drawn.objlist[p]].separable /\ ~HasSED(Drawn.objlist[p])
    /\ Count(last.log, "effective_prof_cache") = 1


(***************************************************************************)
(* Calling _norm.  A _norm that is a function of wavelength is a closure   *)
(* made by the constructor; calling it takes a frame of the interpreter,   *)
(* which raises when none is left.                                         *)
(***************************************************************************)
\* The frames a call may nest before the interpreter raises.
RecursionLimit == 6

\* The function of wavelength that the user gives as flux_ratio.
UserFuncAt(wave) == <<wave, 1>>

RECURSIVE NormAt(_, _, _, _)
\* obj._norm(wave) if obj._norm is callable, otherwise obj._norm, for the
\* objects made from GSObjects by ChromaticObject, the PSF classes,
\* ChromaticTransformation and ChromaticSum.  In a ChromaticSum that is not
\* separable the closure is `lambda w: self._norm(w) + obj._norm(w)` (or
\* `+ obj._norm`), where self._norm is looked up when the closure is called
\* and obj is the last of objlist.
NormAt(h, i, wave, frames) ==
    LET self == h[i]
        Times(a, b) ==
            IF a.err # "none" THEN a ELSE IF b.err # "none" THEN b
            ELSE Value(RMul(a.val, b.val))
        Plus(a, b) ==
            IF a.err # "none" THEN a ELSE IF b.err # "none" THEN b
            ELSE Value(RAdd(a.val, b.val))
    IN  IF ~The(self.norm).call THEN Value(The(self.norm).v)
        ELSE IF frames = 0 THEN NoValue("RecursionError")
        ELSE CASE self.kind = "ChromaticTransformation" ->
                    Times(NormAt(h, self.args[1], wave, frames - 1),
                          IF The(self.transform).flux_ratio.x.call
                          THEN Value(UserFuncAt(wave))
                          ELSE Value(The(self.transform).flux_ratio.x.v))
               [] self.kind = "ChromaticSum" /\ self.separable ->
                    Times(NormAt(h, self.objlist[1], wave, frames - 1),
                          Value(<<Len(self.objlist), 1>>))
               [] self.kind = "ChromaticSum" /\ ~self.separable ->
                    Plus(NormAt(h, i, wave, frames - 1),
                         NormAt(h, self.objlist[Len(self.objlist)], wave,
                                frames - 1))
               \* the closures of the other classes are not followed
               [] OTHER -> NoValue("NotFollowed")

\* obj._norm(wave), or obj._norm when it is a number, of an object without
\* SED.
CallNorm ==
    \E i \in Ids, wave \in 1..MaxWave :
        /\ Running
        /\ ~IsNone(nodes[i].norm)
        /\ \E r \in {NormAt(nodes, i, wave, RecursionLimit)} :
            /\ nodes' = nodes
            /\ last' = [Call("_norm", <<i>>) EXCEPT
                            !.wave = wave, !.err = r.err, !.val = r.val,
                            !.log = <<"norm">>]

\* Programs that add profiles without SED, scaled by numbers and by
\* functions of wavelength, and read the normalization of what they built.
NextNorm ==
    \/ NewChromatic(MaxDeep)
    \/ NewChromaticObjectGS(MaxDeep)
    \/ NewChromaticPSF(MaxDeep)
    \/ NewTransformation(MaxDeep)
    \/ NewSum(MaxDeep)
    \/ CallNorm

SpecNorm == Init /\ [][NextNorm]_vars

RECURSIVE NormsAt(_, _)
\* The sum of the normalizations of the objects ids at the wavelength.
NormsAt(ids, wave) ==
    IF ids = <<>> THEN Value(<<0, 1>>)
    ELSE LET With(a, b) ==
                IF a.err # "none" THEN a ELSE IF b.err # "none" THEN b
                ELSE Value(RAdd(a.val, b.val))
         IN  With(NormAt(nodes, Head(ids), wave, RecursionLimit),
                  NormsAt(Tail(ids), wave))

RECURSIVE ScalesOf(_)
\* The sum of the scales of the SEDs of the objects ids.
ScalesOf(ids) ==
    IF ids = <<>> THEN <<0, 1>>
    ELSE RAdd(The(nodes[Head(ids)].SED).k, ScalesOf(Tail(ids)))

\* The SED of a separable ChromaticSum is the sum of the SEDs of its
\* summands: the same spectrum at the sum of their scales.
SeparableSumSED ==
    \A i \in Ids :
        (nodes[i].kind = "ChromaticSum" /\ nodes[i].separable /\ HasSED(i)) =>
            /\ \A p \in 1..Len(nodes[i].objlist) :
                    The(nodes[nodes[i].objlist[p]].SED).base = The(nodes[i].SED).base
            /\ The(nodes[i].SED).k = ScalesOf(nodes[i].objlist)

\* The normalization read of a ChromaticSum is the sum of those of its
\* summands at the wavelength.
SumNormIsSum ==
    /\ last.err = "none"
    /\ NormsAt(Drawn.objlist, last.wave).err = "none"
    /\ last.val = NormsAt(Drawn.objlist, last.wave).val

\* C30: reading the normalization of a ChromaticSum without SED at a
\* wavelength returns, and gives the sum of the normalizations of its
\* summands at the wavelength, when the sum is not separable and a summand's
\* normalization is a function of wavelength as when it is separable; and
\* the SED of a separable ChromaticSum is the sum of the SEDs of its
\* summands.
C30_SumNorm ==
    /\ (last.op = "_norm" /\ Drawn.kind = "ChromaticSum") => SumNormIsSum
    /\ SeparableSumSED

\* The same of the sums whose normalization is a number.
SumNormOfNumbers ==
    /\ (/\ last.op = "_norm"
        /\ Drawn.kind = "ChromaticSum"
        /\ ~The(Drawn.norm).call) => SumNormIsSum
    /\ SeparableSumSED

====
